---- MODULE Spec2Model ----
(***************************************************************************)
(* Model of the IPTV source verification pipeline (scripts/6.x).           *)
(*                                                                         *)
(* One run of one stage script is one behaviour: Init picks the stage, its *)
(* command line (concurrency) and its input file; the asyncio tasks of the *)
(* stage are interleaved at their await points.                            *)
(***************************************************************************)
EXTENDS Integers, Sequences, FiniteSets, TLC

\* ------------------------------------------------------------------ bounds
MaxRows == 2          \* data rows in the input file
MaxConcurrency == 2   \* largest --concurrency tried

\* --------------------------------------------------------- program constants
RETRY_LIMIT == 2
SUCCESS_STATUS == {200, 206, 301, 302, 403, 429}
BaseDelayMs == 200    \* 0.2 s, in milliseconds
ReadSize == 10        \* resp.content.read(10)

\* ------------------------------------------------------------ Python values
PyNone == <<"None">>
PyInt(n) == <<"int", n>>
PyStr(s) == <<"str", s>>

\* a str given by its characters
PyText(chars) == <<"text", chars>>

\* Floats are fractions <<numerator, denominator>>.
Frac(n, d) == <<n, d>>
FracEq(x, y) == x[1] * y[2] = y[1] * x[2]
FracLeq(x, y) == x[1] * y[2] <= y[1] * x[2]
FracMax(x, y) == IF FracLeq(x, y) THEN y ELSE x
FracDiv(x, y) == Frac(x[1] * y[2], x[2] * y[1])
PyFloat(f) == <<"float", f>>

Min(a, b) == IF a <= b THEN a ELSE b

\* ---------------------------------------------------- str.split, float, int
Digits == <<"0", "1", "2", "3", "4", "5", "6", "7", "8", "9">>
IsDigit(c) == \E i \in DOMAIN Digits : Digits[i] = c
DigitVal(c) == (CHOOSE i \in DOMAIN Digits : Digits[i] = c) - 1
AllDigits(s) == \A i \in DOMAIN s : IsDigit(s[i])

RECURSIVE DigitsVal(_)
DigitsVal(s) ==
    IF s = <<>> THEN 0
    ELSE DigitsVal(SubSeq(s, 1, Len(s) - 1)) * 10 + DigitVal(s[Len(s)])

RECURSIVE Pow10(_)
Pow10(k) == IF k = 0 THEN 1 ELSE 10 * Pow10(k - 1)

HasChar(s, c) == \E i \in DOMAIN s : s[i] = c

\* s.split(sep): the parts between the occurrences of the character sep
RECURSIVE Split(_, _)
Split(s, sep) ==
    IF ~HasChar(s, sep) THEN <<s>>
    ELSE LET i == CHOOSE j \in DOMAIN s : s[j] = sep /\ \A k \in 1..(j - 1) : s[k] # sep
         IN  <<SubSeq(s, 1, i - 1)>> \o Split(SubSeq(s, i + 1, Len(s)), sep)

\* float(s) for texts made of digits, points and other characters (no sign,
\* exponent or blank): <<value>>, or <<>> for ValueError
FloatOfParts(s, parts) ==
    IF Len(parts) = 1
    THEN IF s # <<>> /\ AllDigits(s) THEN <<Frac(DigitsVal(s), 1)>> ELSE <<>>
    ELSE IF /\ Len(parts) = 2
            /\ AllDigits(parts[1]) /\ AllDigits(parts[2])
            /\ Len(parts[1]) + Len(parts[2]) > 0
         THEN <<Frac(DigitsVal(parts[1]) * Pow10(Len(parts[2])) + DigitsVal(parts[2]),
                     Pow10(Len(parts[2])))>>
         ELSE <<>>
ParseFloat(s) == FloatOfParts(s, Split(s, "."))

\* int(s) for the same texts: <<value>>, or <<>> for ValueError
ParseInt(s) == IF s # <<>> /\ AllDigits(s) THEN <<DigitsVal(s)>> ELSE <<>>

\* str.startswith: s and prefix are sequences of characters
StartsWith(s, prefix) ==
    /\ Len(s) >= Len(prefix)
    /\ \A i \in 1..Len(prefix) : s[i] = prefix[i]

HttpPrefix == <<"h", "t", "t", "p">>
UrlHttp == <<"h", "t", "t", "p", ":", "/", "/", "a">>
UrlRtmp == <<"r", "t", "m", "p", ":", "/", "/", "b">>
Urls == {UrlHttp, UrlRtmp}

\* A data row of the input file: the address column and the passthrough columns
\* (a name and the resolution hint the merge step writes).
Row(i, u) == [name |-> i, url |-> u, resolution |-> PyStr("1080p")]

\* dict(d) followed by d.update(upd) / d[k] = v: the keys of upd are set, new
\* or not
DictUpdate(d, upd) ==
    [k \in DOMAIN d \cup DOMAIN upd |-> IF k \in DOMAIN upd THEN upd[k] ELSE d[k]]

\* All input files with 1..MaxRows data rows; the passthrough column numbers them.
InputFiles ==
    UNION {{[i \in 1..n |-> Row(i, f[i])] : f \in [1..n -> Urls]} : n \in 1..MaxRows}

\* ---------------------------------------------------- the network (fast scan)
\* What one GET can meet: no response at all, or a response with a status whose
\* body delivers `avail` bytes and then ends or hangs until the total timeout.
Response(s, n, e) == [kind |-> "response", status |-> s, avail |-> n, ending |-> e]
ConnectError(why) == [kind |-> why, status |-> 0, avail |-> 0, ending |-> "none"]

\* resp.content.read(n): whatever is available, an empty read at EOF, else the
\* total timeout raises.
ReadBody(o, n) ==
    IF o.avail > 0 THEN [raised |-> FALSE, nbytes |-> Min(o.avail, n)]
    ELSE IF o.ending = "eof" THEN [raised |-> FALSE, nbytes |-> 0]
    ELSE [raised |-> TRUE, nbytes |-> 0]

\* mutant: 500 itself is taken for a rejected status
StatusAcceptedOpen(s) == s \in SUCCESS_STATUS \/ (500 < s /\ s <= 599)

StatusAccepted(s) == s \in SUCCESS_STATUS \/ (500 <= s /\ s <= 599)

\* fetch_url: (ok, rtt, status); rttv is the measured round trip in ms.
fetch_url(o, rttv) ==
    IF o.kind # "response"
    THEN [ok |-> FALSE, rtt |-> PyNone, status |-> PyNone]
    ELSE IF StatusAccepted(o.status)
         THEN IF ReadBody(o, ReadSize).raised
              THEN [ok |-> FALSE, rtt |-> PyNone, status |-> PyNone]
              ELSE [ok |-> TRUE, rtt |-> PyInt(rttv), status |-> PyInt(o.status)]
         ELSE [ok |-> FALSE, rtt |-> PyNone, status |-> PyInt(o.status)]

RttSamples == {0, 120}

\* The outcomes the servers of a whole run may give (kept small: every task
\* draws one per attempt).
ScanOutcomes ==
    {ConnectError("refused"), Response(403, 50, "eof"), Response(404, 50, "eof")}

VARIABLES
    stage,        \* which script runs
    input_file,   \* data rows of --input
    concurrency,  \* --concurrency
    mainPc,       \* position of main / run_all
    rows,         \* rows handed to run_all
    semaphore,    \* asyncio.Semaphore._value
    pc,           \* position of each task
    attempt,      \* loop variable of each check_source
    status,       \* local `status` of each check_source
    fetched,      \* per task: the outcomes its fetch attempts met (log)
    slept,        \* per task: the delays it slept, in ms (log)
    done_queue,   \* as_completed: results of finished tasks not yet awaited
    results,      \* run_all's results list
    output_file,  \* the file at --output: NotWritten or Written(rows)
    sem_ops,      \* per task: <<acquisitions, releases>> of the semaphore (log)
    local,        \* per task: the locals of process_url / process_one while it runs
    last_proc,    \* per task: the last subprocess it ran, NoProc or ProcEnd(..)
    task_end,     \* per task: NotCalled, or Returned(what it handed to as_completed) (log)
    results_ok,   \* deep_scan's results_ok list
    results_fail, \* deep_scan's results_fail list
    invalid_file, \* the file at --invalid: NotWritten or Written(rows)
    retries,      \* --retry of the hash scan
    cache,        \* the final scan's cache: url -> bucket -> timepoint -> hashes
    call_fn,      \* a function called on its own: its name,
    call_arg,     \*   its argument
    call_ret      \*   and NotCalled or Returned(value)

\* a file not written yet, and a file holding `content`
NotWritten == <<>>
Written(content) == <<content>>

\* a call that has not returned yet, and one that returned `value`
NotCalled == <<>>
Returned(value) == <<value>>

cfgVars == <<stage, input_file, concurrency, retries, cache>>
callVars == <<call_fn, call_arg, call_ret>>
splitVars == <<results_ok, results_fail, invalid_file>>
mainVars == <<mainPc, rows, done_queue, results, output_file, splitVars>>
fastVars == <<attempt, status, fetched, slept>>
\* a subprocess that was not started, and how a started one ended for the task
NoProc == <<>>
ProcEnd(timed_out, killed) == [timed_out |-> timed_out, killed |-> killed]

taskVars == <<semaphore, pc, sem_ops, fastVars, local, last_proc, task_end>>

vars == <<cfgVars, callVars, mainVars, taskVars>>

Tasks == DOMAIN pc

\* mutant: acquire never waits
SemFreeAlways(v) == TRUE

\* asyncio.Semaphore: acquire passes while the value is positive
SemFree(v) == v > 0

Acquired(ops) == <<ops[1] + 1, ops[2]>>
Released(ops) == <<ops[1], ops[2] + 1>>

\* the per-task variables of a freshly created task list
NewTasks(n) ==
    /\ pc' = [t \in 1..n |-> "start"]
    /\ attempt' = [t \in 1..n |-> 0]
    /\ status' = [t \in 1..n |-> PyNone]
    /\ fetched' = [t \in 1..n |-> <<>>]
    /\ slept' = [t \in 1..n |-> <<>>]
    /\ sem_ops' = [t \in 1..n |-> <<0, 0>>]
    /\ local' = [t \in 1..n |-> <<>>]
    /\ last_proc' = [t \in 1..n |-> NoProc]
    /\ task_end' = [t \in 1..n |-> NotCalled]

\* task t has taken a step: what it appended to the queue of finished tasks,
\* if anything, is its end
LogEnd(t) ==
    task_end' = IF Len(done_queue') > Len(done_queue)
                THEN [task_end EXCEPT ![t] = Returned(done_queue'[Len(done_queue')])]
                ELSE task_end

\* ------------------------------------------------------------- fast scan
\* read_csv: keeps the rows whose address starts with "http".
read_csv(file) == SelectSeq(file, LAMBDA r : StartsWith(r.url, HttpPrefix))

\* main up to the first await of run_all: read, make the semaphore and the tasks.
FastStart ==
    /\ stage = "fast"
    /\ mainPc = "start"
    /\ rows' = read_csv(input_file)
    /\ semaphore' = concurrency
    /\ NewTasks(Len(rows'))
    /\ mainPc' = "collect"
    /\ UNCHANGED <<cfgVars, callVars, done_queue, results, output_file, splitVars>>

\* row.copy() plus the two check columns
Annotated(row, rtt, st) == DictUpdate(row, [check_time |-> rtt, status_code |-> st])

\* mutant: the failure row forgets the status of the last attempt
FailureRowNoStatus(row, st) == Annotated(row, PyStr(""), PyNone)

\* the row returned when every attempt failed
FailureRow(row, st) == Annotated(row, PyStr(""), st)

\* mutant: the delay is scaled by the zero-based loop variable
BackoffDelayZeroBased(att) == BaseDelayMs * att

\* asyncio.sleep(0.2 * (attempt + 1)), in ms
BackoffDelay(att) == BaseDelayMs * (att + 1)

\* mutant: one pass too many
HasNextAttemptInclusive(att) == att + 1 <= RETRY_LIMIT

\* for attempt in range(RETRY_LIMIT): is there another pass after pass `att`
HasNextAttempt(att) == att + 1 < RETRY_LIMIT

\* async with semaphore: entry
CheckAcquire(t) ==
    /\ stage = "fast"
    /\ pc[t] = "start"
    /\ SemFree(semaphore)
    /\ semaphore' = semaphore - 1
    /\ sem_ops' = [sem_ops EXCEPT ![t] = Acquired(@)]
    /\ status' = [status EXCEPT ![t] = PyNone]
    /\ attempt' = [attempt EXCEPT ![t] = 0]
    /\ pc' = [pc EXCEPT ![t] = "fetch"]
    /\ UNCHANGED <<cfgVars, callVars, mainVars, fetched, slept, local, last_proc, task_end>>

\* one pass of the loop body up to the sleep: await fetch_url, return on success
\* (leaving the async with block releases the semaphore)
CheckFetch(t) ==
    /\ stage = "fast"
    /\ pc[t] = "fetch"
    /\ \E o \in ScanOutcomes, rttv \in RttSamples :
         LET r == fetch_url(o, rttv) IN
         /\ fetched' = [fetched EXCEPT ![t] = Append(@, o)]
         /\ status' = [status EXCEPT ![t] = r.status]
         /\ IF r.ok
            THEN /\ done_queue' = Append(done_queue, Annotated(rows[t], r.rtt, r.status))
                 /\ semaphore' = semaphore + 1
                 /\ sem_ops' = [sem_ops EXCEPT ![t] = Released(@)]
                 /\ pc' = [pc EXCEPT ![t] = "done"]
                 /\ slept' = slept
            ELSE /\ slept' = [slept EXCEPT ![t] = Append(@, BackoffDelay(attempt[t]))]
                 /\ pc' = [pc EXCEPT ![t] = "sleep"]
                 /\ UNCHANGED <<done_queue, semaphore, sem_ops>>
    /\ LogEnd(t)
    /\ UNCHANGED <<cfgVars, callVars, mainPc, rows, results, output_file, splitVars,
                   attempt, local, last_proc>>

\* mutant: the retry goes through the semaphore again
CheckWakeReenter(t) ==
    /\ stage = "fast"
    /\ pc[t] = "sleep"
    /\ IF HasNextAttempt(attempt[t])
       THEN /\ SemFree(semaphore)
            /\ semaphore' = semaphore - 1
            /\ sem_ops' = [sem_ops EXCEPT ![t] = Acquired(@)]
            /\ attempt' = [attempt EXCEPT ![t] = @ + 1]
            /\ pc' = [pc EXCEPT ![t] = "fetch"]
            /\ UNCHANGED done_queue
       ELSE /\ done_queue' = Append(done_queue, FailureRow(rows[t], status[t]))
            /\ semaphore' = semaphore + 1
            /\ sem_ops' = [sem_ops EXCEPT ![t] = Released(@)]
            /\ pc' = [pc EXCEPT ![t] = "done"]
            /\ attempt' = attempt
    /\ LogEnd(t)
    /\ UNCHANGED <<cfgVars, callVars, mainPc, rows, results, output_file, splitVars,
                   status, fetched, slept, local, last_proc>>

\* mutant: the failure return leaves the semaphore taken
CheckWakeNoRelease(t) ==
    /\ stage = "fast"
    /\ pc[t] = "sleep"
    /\ IF HasNextAttempt(attempt[t])
       THEN /\ attempt' = [attempt EXCEPT ![t] = @ + 1]
            /\ pc' = [pc EXCEPT ![t] = "fetch"]
            /\ UNCHANGED done_queue
       ELSE /\ done_queue' = Append(done_queue, FailureRow(rows[t], status[t]))
            /\ pc' = [pc EXCEPT ![t] = "done"]
            /\ attempt' = attempt
    /\ LogEnd(t)
    /\ UNCHANGED <<cfgVars, callVars, mainPc, rows, results, output_file, splitVars,
                   status, fetched, slept, semaphore, sem_ops, local, last_proc>>

\* asyncio.sleep returns: next pass, or the loop is exhausted and the row is
\* returned with an empty check time
CheckWake(t) ==
    /\ stage = "fast"
    /\ pc[t] = "sleep"
    /\ IF HasNextAttempt(attempt[t])
       THEN /\ attempt' = [attempt EXCEPT ![t] = @ + 1]
            /\ pc' = [pc EXCEPT ![t] = "fetch"]
            /\ UNCHANGED <<done_queue, semaphore, sem_ops>>
       ELSE /\ done_queue' = Append(done_queue, FailureRow(rows[t], status[t]))
            /\ semaphore' = semaphore + 1
            /\ sem_ops' = [sem_ops EXCEPT ![t] = Released(@)]
            /\ pc' = [pc EXCEPT ![t] = "done"]
            /\ attempt' = attempt
    /\ LogEnd(t)
    /\ UNCHANGED <<cfgVars, callVars, mainPc, rows, results, output_file, splitVars,
                   status, fetched, slept, local, last_proc>>

\* for f in as_completed(tasks): res = await f; results.append(res)
FastCollect ==
    /\ stage = "fast"
    /\ mainPc = "collect"
    /\ done_queue # <<>>
    /\ results' = Append(results, Head(done_queue))
    /\ done_queue' = Tail(done_queue)
    /\ UNCHANGED <<cfgVars, callVars, mainPc, rows, output_file, splitVars, taskVars>>

\* the loop has yielded every task: write the one output file
FastWrite ==
    /\ stage = "fast"
    /\ mainPc = "collect"
    /\ Len(results) = Len(rows)
    /\ output_file' = Written(results)
    /\ mainPc' = "done"
    /\ UNCHANGED <<cfgVars, callVars, rows, done_queue, results, splitVars, taskVars>>

\* nothing has run yet
IdleRun ==
    /\ mainPc = "start"
    /\ rows = <<>>
    /\ semaphore = 0
    /\ pc = <<>>
    /\ attempt = <<>>
    /\ status = <<>>
    /\ fetched = <<>>
    /\ slept = <<>>
    /\ sem_ops = <<>>
    /\ local = <<>>
    /\ last_proc = <<>>
    /\ task_end = <<>>
    /\ done_queue = <<>>
    /\ results = <<>>
    /\ results_ok = <<>>
    /\ results_fail = <<>>
    /\ output_file = NotWritten
    /\ invalid_file = NotWritten

NoCall ==
    /\ call_fn = "none"
    /\ call_arg = <<>>
    /\ call_ret = NotCalled

\* the arguments only other stages have
NoRetryArg == retries = 0
NoCache == cache = <<>>

FastInit ==
    /\ stage = "fast"
    /\ input_file \in InputFiles
    /\ concurrency \in 1..MaxConcurrency
    /\ NoRetryArg
    /\ NoCache
    /\ IdleRun
    /\ NoCall

FastNext ==
    \/ FastStart
    \/ \E t \in Tasks : CheckAcquire(t)
    \/ \E t \in Tasks : CheckFetch(t)
    \/ \E t \in Tasks : CheckWake(t)
    \/ FastCollect
    \/ FastWrite

SpecFast == FastInit /\ [][FastNext]_vars

\* the event loop runs a task that can run
SpecFastFair == SpecFast /\ WF_vars(FastNext)

\* ------------------------------------------------- fetch_url called on its own
StatusSamples ==
    {100, 199, 200, 204, 206, 301, 302, 304, 400, 403, 404, 429, 499, 500, 503,
     599, 600}
AvailSamples == {0, 3, 50}
FetchInputs ==
    {Response(s, n, e) : s \in StatusSamples, n \in AvailSamples, e \in {"eof", "hang"}}
    \cup {ConnectError(w) : w \in {"refused", "dns", "timeout"}}

FetchInit ==
    /\ stage = "none"
    /\ input_file = <<>>
    /\ concurrency = 1
    /\ NoRetryArg
    /\ NoCache
    /\ IdleRun
    /\ call_fn = "fetch_url"
    /\ call_arg \in FetchInputs
    /\ call_ret = NotCalled

FetchCall ==
    /\ call_fn = "fetch_url"
    /\ call_ret = NotCalled
    /\ \E rttv \in RttSamples : call_ret' = Returned(fetch_url(call_arg, rttv))
    /\ UNCHANGED <<cfgVars, mainVars, taskVars, call_fn, call_arg>>

SpecFetch == FetchInit /\ [][FetchCall]_vars

\* ------------------------------------------------- what all stages share
\* An error text is a sequence of words; `w in err` looks for the word.
StrContains(err, w) == \E i \in DOMAIN err : err[i] = w

\* a finished task as as_completed hands it over: its value, or its exception
TaskReturn(v) == [raised |-> FALSE, value |-> v]
TaskRaise == [raised |-> TRUE, value |-> <<>>]

\* positions at which a task is inside `async with <semaphore>`
HoldingPcs == {"fetch", "sleep", "probe", "grab", "retry_sleep", "frames"}
Holds(t) == pc[t] \in HoldingPcs

\* An exception reaches main: asyncio.run cancels the tasks still pending,
\* each leaving its `async with` block on the way out.
CancelPending ==
    /\ pc' = [t \in Tasks |-> IF pc[t] \in {"done", "raised"} THEN pc[t] ELSE "cancelled"]
    /\ semaphore' = semaphore + Cardinality({t \in Tasks : Holds(t)})
    /\ sem_ops' = [t \in Tasks |-> IF Holds(t) THEN Released(sem_ops[t]) ELSE sem_ops[t]]

\* --------------------------------------------------------------- deep scan
\* (the elapsed time is left out of the probe records)

\* One run of the ffprobe subprocess.
Proc(launch, timed_out, stdout, stderr) ==
    [launch |-> launch, timed_out |-> timed_out, stdout |-> stdout, stderr |-> stderr]
StdoutEmpty == <<"empty">>
StdoutText == <<"text">>
StdoutJson(doc) == <<"json", doc>>

\* texts ffprobe puts into rate, duration and bit rate fields
Txt25 == PyText(<<"2", "5", "/", "1">>)
Txt30 == PyText(<<"3", "0", "/", "1">>)
TxtZeroRate == PyText(<<"0", "/", "0">>)
TxtNA == PyText(<<"N", "/", "A">>)
TxtThreeParts == PyText(<<"3", "0", "/", "1", "/", "1">>)
TxtDuration == PyText(<<"1", "0", ".", "5">>)
TxtBitRate == PyText(<<"1", "2", "8">>)

Stream(type, codec, w, h, avg, rfr) ==
    [codec_type |-> type, codec_name |-> codec, width |-> w, height |-> h,
     avg_frame_rate |-> avg, r_frame_rate |-> rfr]
VideoStream == Stream("video", PyStr("h264"), PyInt(1920), PyInt(1080), Txt25, Txt25)
VideoStreamB == Stream("video", PyStr("hevc"), PyInt(1280), PyInt(720), TxtZeroRate, Txt30)
AudioStream == Stream("audio", PyStr("aac"), PyNone, PyNone, TxtZeroRate, TxtZeroRate)
Format(duration, bit_rate) == [duration |-> duration, bit_rate |-> bit_rate]
NoFormat == Format(PyNone, PyNone)
ProbeDoc(streams, fmt) == [empty |-> FALSE, streams |-> streams, format |-> fmt]
EmptyDoc == [empty |-> TRUE, streams |-> <<>>, format |-> NoFormat]
NoDoc == <<>>

ProbeResult(url, data) == [url |-> url, has_probe |-> TRUE, probe |-> data, error |-> <<>>]
ProbeError(url, err) == [url |-> url, has_probe |-> FALSE, probe |-> NoDoc, error |-> err]

\* how a call of ffprobe_json ends: its dict or an exception, and whether it
\* killed the subprocess
ProbeEnd(raised, res, killed) == [raised |-> raised, res |-> res, killed |-> killed]

\* mutant: a timed-out ffprobe is left running
ffprobe_json_no_kill(url, p) ==
    IF p.launch = "not_found"
    THEN ProbeEnd(FALSE, ProbeError(url, <<"ffprobe_not_installed">>), FALSE)
    ELSE IF p.launch # "ok" THEN ProbeEnd(TRUE, <<>>, FALSE)
    ELSE IF p.timed_out THEN ProbeEnd(FALSE, ProbeError(url, <<"timeout">>), FALSE)
    ELSE IF p.stdout # StdoutEmpty
    THEN IF p.stdout[1] = "json"
         THEN ProbeEnd(FALSE, ProbeResult(url, p.stdout[2]), FALSE)
         ELSE ProbeEnd(FALSE, ProbeError(url, <<"json_parse_error", "Expecting value">>), FALSE)
    ELSE ProbeEnd(FALSE,
                  ProbeError(url, IF p.stderr # <<>> THEN p.stderr ELSE <<"no_output">>), FALSE)

\* ffprobe_json; only FileNotFoundError is caught at launch
ffprobe_json(url, p) ==
    IF p.launch = "not_found"
    THEN ProbeEnd(FALSE, ProbeError(url, <<"ffprobe_not_installed">>), FALSE)
    ELSE IF p.launch # "ok" THEN ProbeEnd(TRUE, <<>>, FALSE)
    ELSE IF p.timed_out THEN ProbeEnd(FALSE, ProbeError(url, <<"timeout">>), TRUE)
    ELSE IF p.stdout # StdoutEmpty
    THEN IF p.stdout[1] = "json"
         THEN ProbeEnd(FALSE, ProbeResult(url, p.stdout[2]), FALSE)
         ELSE ProbeEnd(FALSE, ProbeError(url, <<"json_parse_error", "Expecting value">>), FALSE)
    ELSE ProbeEnd(FALSE,
                  ProbeError(url, IF p.stderr # <<>> THEN p.stderr ELSE <<"no_output">>), FALSE)

InfoDefault ==
    [has_video |-> FALSE, has_audio |-> FALSE, video_codec |-> PyNone,
     width |-> PyNone, height |-> PyNone, frame_rate |-> PyNone,
     duration |-> PyNone, bit_rate |-> PyNone]

\* truth value of a Python value
PyFalsy(x) ==
    \/ x = PyNone \/ x = PyInt(0) \/ x = PyStr("") \/ x = PyText(<<>>)
    \/ (x[1] = "float" /\ x[2][1] = 0)
\* a or b
PyOr(a, b) == IF PyFalsy(a) THEN b ELSE a

\* The frame rate lines of the loop body for one video stream: the value is
\* set only when the rate text has a "/", and unpacking the split raises unless
\* it has exactly two parts.
\* float(num) / float(den) if float(den) != 0 else None, None on any exception
RateValue(num, den) ==
    IF den = <<>> THEN PyNone
    ELSE IF den[1][1] = 0 THEN PyNone
    ELSE IF num = <<>> THEN PyNone
    ELSE PyFloat(FracDiv(num[1], den[1]))
\* num, den = r.split("/")
RateOfParts(parts) ==
    IF Len(parts) # 2
    THEN [raised |-> TRUE, assigned |-> FALSE, value |-> PyNone]
    ELSE [raised |-> FALSE, assigned |-> TRUE,
          value |-> RateValue(ParseFloat(parts[1]), ParseFloat(parts[2]))]
\* if r and "/" in r
RateOf(r) ==
    IF PyFalsy(r) \/ ~HasChar(r[2], "/")
    THEN [raised |-> FALSE, assigned |-> FALSE, value |-> PyNone]
    ELSE RateOfParts(Split(r[2], "/"))
FrameRate(s) == RateOf(PyOr(s.avg_frame_rate, s.r_frame_rate))

\* the loop body: every video stream overwrites the video fields
ScanStream(acc, s, fr) ==
    IF s.codec_type = "video"
    THEN [raised |-> fr.raised,
          info |-> [acc.info EXCEPT !.has_video = TRUE,
                                    !.video_codec = s.codec_name,
                                    !.width = s.width, !.height = s.height,
                                    !.frame_rate = IF fr.assigned THEN fr.value ELSE @]]
    ELSE acc
\* the loop over the streams, left at the first exception
RECURSIVE ScanStreams(_, _)
ScanStreams(acc, streams) ==
    IF streams = <<>> \/ acc.raised THEN acc
    ELSE ScanStreams(ScanStream(acc, Head(streams), FrameRate(Head(streams))),
                     Tail(streams))

\* float(fmt.get("duration")) if fmt.get("duration") else None: <<value>>, or
\* <<>> when float raises
FloatValue(v) == IF v = <<>> THEN <<>> ELSE <<PyFloat(v[1])>>
Duration(fmt) ==
    IF PyFalsy(fmt.duration) THEN <<PyNone>> ELSE FloatValue(ParseFloat(fmt.duration[2]))

\* int(fmt.get("bit_rate")) if fmt.get("bit_rate") else None, likewise
IntValue(v) == IF v = <<>> THEN <<>> ELSE <<PyInt(v[1])>>
BitRate(fmt) ==
    IF PyFalsy(fmt.bit_rate) THEN <<PyNone>> ELSE IntValue(ParseInt(fmt.bit_rate[2]))

\* parse_probe: [raised, info]
ParsedInfo(probe, scanned, duration, bit_rate) ==
    IF scanned.raised \/ duration = <<>> \/ bit_rate = <<>>
    THEN [raised |-> TRUE, info |-> InfoDefault]
    ELSE [raised |-> FALSE,
          info |-> [scanned.info EXCEPT
                      !.duration = duration[1],
                      !.bit_rate = bit_rate[1],
                      !.has_audio = \E i \in DOMAIN probe.streams :
                                       probe.streams[i].codec_type = "audio"]]
parse_probe(probe) ==
    IF probe.empty THEN [raised |-> FALSE, info |-> InfoDefault]
    ELSE ParsedInfo(probe,
                    ScanStreams([raised |-> FALSE, info |-> InfoDefault], probe.streams),
                    Duration(probe.format), BitRate(probe.format))

\* x or ""
OrEmpty(x) == IF PyFalsy(x) THEN PyStr("") ELSE x

\* result = dict(row); result.update({...})
DeepResult(row, hv, ha, codec, w, h, fr, dur, br, err) ==
    DictUpdate(row, [has_video |-> hv, has_audio |-> ha, video_codec |-> codec,
                     width |-> w, height |-> h, frame_rate |-> fr, duration |-> dur,
                     bit_rate |-> br, error |-> err])

\* the row of a probe that gave nothing to report
FailedProbe(row, ha, err) ==
    DeepResult(row, FALSE, ha, PyStr(""), PyStr(""), PyStr(""), PyStr(""), PyStr(""),
               PyStr(""), err)

\* mutant: a probe without a video stream passes when it has audio
ProbeReportAudioOk(row, p) ==
    IF p.raised THEN TaskRaise
    ELSE IF ~p.info.has_video
    THEN TaskReturn(<<FailedProbe(row, p.info.has_audio, <<"no_video_stream">>),
                      p.info.has_audio>>)
    ELSE TaskReturn(<<DeepResult(row, p.info.has_video, p.info.has_audio,
                                 OrEmpty(p.info.video_codec), OrEmpty(p.info.width),
                                 OrEmpty(p.info.height), OrEmpty(p.info.frame_rate),
                                 OrEmpty(p.info.duration), OrEmpty(p.info.bit_rate),
                                 <<>>), TRUE>>)

\* probe_one from `parsed = parse_probe(probe)` on, p being what parse_probe
\* did: (result, ok), or the exception of parse_probe
ProbeReport(row, p) ==
    IF p.raised THEN TaskRaise
    ELSE IF ~p.info.has_video
    THEN TaskReturn(<<FailedProbe(row, p.info.has_audio, <<"no_video_stream">>), FALSE>>)
    ELSE TaskReturn(<<DeepResult(row, p.info.has_video, p.info.has_audio,
                                 OrEmpty(p.info.video_codec), OrEmpty(p.info.width),
                                 OrEmpty(p.info.height), OrEmpty(p.info.frame_rate),
                                 OrEmpty(p.info.duration), OrEmpty(p.info.bit_rate),
                                 <<>>), TRUE>>)

\* probe_one after ffprobe_json has returned res
probe_one(row, res) ==
    IF res.has_probe THEN ProbeReport(row, parse_probe(res.probe))
    ELSE TaskReturn(<<FailedProbe(row, FALSE, res.error), FALSE>>)

\* what ffprobe does in a run with several tasks
ProbeOutcomes ==
    {Proc("ok", FALSE, StdoutJson(ProbeDoc(<<VideoStream, AudioStream>>, NoFormat)), <<>>),
     Proc("ok", FALSE, StdoutJson(ProbeDoc(<<AudioStream>>, NoFormat)), <<>>),
     Proc("ok", FALSE, StdoutJson(ProbeDoc(<<VideoStream>>, Format(TxtNA, PyNone))), <<>>),
     Proc("ok", TRUE, StdoutEmpty, <<>>),
     Proc("os_error", FALSE, StdoutEmpty, <<>>)}

\* deep_scan up to the first await: every row of the file becomes a task
DeepStart ==
    /\ stage = "deep"
    /\ mainPc = "start"
    /\ rows' = input_file
    /\ semaphore' = concurrency
    /\ NewTasks(Len(rows'))
    /\ mainPc' = "collect"
    /\ UNCHANGED <<cfgVars, callVars, done_queue, results, output_file, splitVars>>

\* async with sem: entry
ProbeAcquire(t) ==
    /\ stage = "deep"
    /\ pc[t] = "start"
    /\ SemFree(semaphore)
    /\ semaphore' = semaphore - 1
    /\ sem_ops' = [sem_ops EXCEPT ![t] = Acquired(@)]
    /\ pc' = [pc EXCEPT ![t] = "probe"]
    /\ UNCHANGED <<cfgVars, callVars, mainVars, fastVars, local, last_proc, task_end>>

\* await ffprobe_json returns or raises; the task ends either way and leaves
\* the async with block
ProbeRun(t) ==
    /\ stage = "deep"
    /\ pc[t] = "probe"
    /\ \E p \in ProbeOutcomes :
       \E call \in {ffprobe_json(rows[t].url, p)} :
       \E ended \in {IF call.raised THEN TaskRaise ELSE probe_one(rows[t], call.res)} :
         /\ last_proc' = [last_proc EXCEPT ![t] =
                             ProcEnd(p.launch = "ok" /\ p.timed_out, call.killed)]
         /\ done_queue' = Append(done_queue, ended)
         /\ pc' = [pc EXCEPT ![t] = IF ended.raised THEN "raised" ELSE "done"]
    /\ semaphore' = semaphore + 1
    /\ sem_ops' = [sem_ops EXCEPT ![t] = Released(@)]
    /\ LogEnd(t)
    /\ UNCHANGED <<cfgVars, callVars, mainPc, rows, results, output_file, splitVars,
                   fastVars, local>>

\* for fut in as_completed(tasks): result, ok = await fut; a raised task ends
\* deep_scan with its exception
DeepCollect ==
    /\ stage = "deep"
    /\ mainPc = "collect"
    /\ done_queue # <<>>
    /\ done_queue' = Tail(done_queue)
    /\ IF Head(done_queue).raised
       THEN /\ mainPc' = "crashed"
            /\ CancelPending
            /\ UNCHANGED <<results_ok, results_fail>>
       ELSE /\ IF Head(done_queue).value[2]
               THEN /\ results_ok' = Append(results_ok, Head(done_queue).value[1])
                    /\ results_fail' = results_fail
               ELSE /\ results_fail' = Append(results_fail, Head(done_queue).value[1])
                    /\ results_ok' = results_ok
            /\ UNCHANGED <<mainPc, semaphore, pc, sem_ops>>
    /\ UNCHANGED <<cfgVars, callVars, rows, results, output_file, invalid_file,
                   fastVars, local, last_proc, task_end>>

\* the columns deep_scan adds for the output; the resolution column has the
\* name of the input's resolution hint column
NewFields == {"probe_ok", "codec", "resolution", "frame_rate_out", "audio", "probe_time"}
FieldnamesIn == DOMAIN Row(1, UrlHttp)
FieldnamesOut == FieldnamesIn \cup NewFields

\* the result of an f-string, by its parts
FStr(parts) == <<"fstr", parts>>

format_resolution(r) ==
    IF ~PyFalsy(r.width) /\ ~PyFalsy(r.height) THEN FStr(<<r.width, "x", r.height>>)
    ELSE PyStr("")

format_audio(r) == IF r.has_audio THEN PyStr("has audio") ELSE PyStr("no audio")

\* deep_scan's own classify_error
classify_probe_error(r) ==
    IF r.error = <<>> THEN <<"success">>
    ELSE IF StrContains(r.error, "timeout") THEN <<"timed out">>
    ELSE IF StrContains(r.error, "no_output") THEN <<"no output">>
    ELSE IF StrContains(r.error, "json_parse_error") THEN <<"parse error">>
    ELSE IF StrContains(r.error, "ffprobe_not_installed") THEN <<"ffprobe not installed">>
    ELSE IF r.error = <<"no_video_stream">> THEN <<"no video stream">>
    ELSE r.error

\* out_row = dict(r) plus the new columns
OutRow(r) ==
    DictUpdate(r, [probe_ok |-> classify_probe_error(r), codec |-> r.video_codec,
                   resolution |-> format_resolution(r), frame_rate_out |-> r.frame_rate,
                   audio |-> format_audio(r), probe_time |-> FStr(<<"elapsed">>)])
OutRowKeys(r) == DOMAIN OutRow(r)

\* csv.DictWriter.writerow with extrasaction left at "raise"
WriterowRaises(fieldnames, keys) == keys \ fieldnames # {}

\* rows written before the first writerow that raises
RECURSIVE WrittenPrefix(_)
WrittenPrefix(rs) ==
    IF rs = <<>> \/ WriterowRaises(FieldnamesOut, OutRowKeys(Head(rs))) THEN <<>>
    ELSE <<[k \in FieldnamesOut |-> OutRow(Head(rs))[k]]>> \o WrittenPrefix(Tail(rs))

\* both files are opened and get their header, then results_ok is written,
\* then results_fail
DeepWrite ==
    /\ stage = "deep"
    /\ mainPc = "collect"
    /\ Len(results_ok) + Len(results_fail) = Len(rows)
    /\ LET ok_written == WrittenPrefix(results_ok)
           ok_complete == Len(ok_written) = Len(results_ok)
           fail_written == IF ok_complete THEN WrittenPrefix(results_fail) ELSE <<>>
       IN  /\ output_file' = Written(ok_written)
           /\ invalid_file' = Written(fail_written)
           /\ mainPc' = IF ok_complete /\ Len(fail_written) = Len(results_fail)
                        THEN "done" ELSE "crashed"
    /\ UNCHANGED <<cfgVars, callVars, rows, done_queue, results, results_ok,
                   results_fail, taskVars>>

DeepInit ==
    /\ stage = "deep"
    /\ input_file \in InputFiles
    /\ concurrency \in 1..MaxConcurrency
    /\ NoRetryArg
    /\ NoCache
    /\ IdleRun
    /\ NoCall

DeepNext ==
    \/ DeepStart
    \/ \E t \in Tasks : ProbeAcquire(t)
    \/ \E t \in Tasks : ProbeRun(t)
    \/ DeepCollect
    \/ DeepWrite

SpecDeep == DeepInit /\ [][DeepNext]_vars

\* ------------------------------------------- probe_one called on its own
MaxStreams == 2

VideoNoAvg == Stream("video", PyStr("mpeg2video"), PyInt(720), PyInt(576), PyNone, Txt30)
VideoThreeParts == Stream("video", PyStr("h264"), PyInt(1920), PyInt(1080), TxtThreeParts, Txt25)
VideoNoRate == Stream("video", PyStr("vp9"), PyInt(640), PyInt(360), TxtNA, Txt25)
StreamSamples ==
    {VideoStream, VideoStreamB, VideoNoAvg, VideoThreeParts, VideoNoRate, AudioStream}
FormatSamples ==
    {NoFormat, Format(TxtDuration, TxtBitRate), Format(TxtNA, PyNone),
     Format(PyNone, TxtDuration)}
DocSamples ==
    {EmptyDoc} \cup
    {ProbeDoc(ss, f) : ss \in UNION {[1..n -> StreamSamples] : n \in 0..MaxStreams},
                       f \in FormatSamples}
ProbeInputs ==
    {Proc("ok", FALSE, StdoutJson(d), <<>>) : d \in DocSamples}
    \cup {Proc("not_found", FALSE, StdoutEmpty, <<>>), Proc("os_error", FALSE, StdoutEmpty, <<>>),
          Proc("ok", TRUE, StdoutEmpty, <<>>), Proc("ok", FALSE, StdoutEmpty, <<>>),
          Proc("ok", FALSE, StdoutEmpty, <<"Connection refused">>),
          Proc("ok", FALSE, StdoutText, <<>>)}

ProbeRow == Row(1, UrlHttp)

ProbeInit ==
    /\ stage = "none"
    /\ input_file = <<>>
    /\ concurrency = 1
    /\ NoRetryArg
    /\ NoCache
    /\ IdleRun
    /\ call_fn = "probe_one"
    /\ call_arg \in ProbeInputs
    /\ call_ret = NotCalled

\* probe_one for ProbeRow when ffprobe does call_arg: how the task ends, and
\* whether the subprocess was killed
ProbeCall ==
    /\ call_fn = "probe_one"
    /\ call_ret = NotCalled
    /\ LET call == ffprobe_json(ProbeRow.url, call_arg) IN
       call_ret' = Returned([end |-> IF call.raised THEN TaskRaise
                                     ELSE probe_one(ProbeRow, call.res),
                             killed |-> call.killed])
    /\ UNCHANGED <<cfgVars, mainVars, taskVars, call_fn, call_arg>>

SpecProbe == ProbeInit /\ [][ProbeCall]_vars

\* --------------------------------------------------------------- hash scan
\* (the fetch times are left out of the statistics)
GRAB_TIMES == <<2, 5, 20>>

\* str.strip on a sequence of characters
RECURSIVE LStrip(_)
LStrip(s) == IF s # <<>> /\ Head(s) = " " THEN LStrip(Tail(s)) ELSE s
RECURSIVE RStrip(_)
RStrip(s) == IF s # <<>> /\ s[Len(s)] = " " THEN RStrip(SubSeq(s, 1, Len(s) - 1)) ELSE s
Strip(s) == RStrip(LStrip(s))

\* str.lower on the words error texts are made of
Lower(w) ==
    CASE w = "Timeout" -> "timeout"
      [] w = "Connection refused" -> "connection refused"
      [] OTHER -> w
LowerAll(err) == [i \in DOMAIN err |-> Lower(err[i])]

NetworkWords ==
    {"connection refused", "connection timed out", "connection reset",
     "connection failed", "network is unreachable"}

classify_error(err) ==
    IF err = <<>> THEN ""
    ELSE LET err_lower == LowerAll(err) IN
         IF StrContains(err_lower, "timeout") THEN "timeout"
         ELSE IF \E x \in NetworkWords : StrContains(err_lower, x) THEN "network_error"
         ELSE IF StrContains(err_lower, "ffmpeg error") THEN "ffmpeg_error"
         ELSE "other_error"

\* One run of the ffmpeg subprocess; stdout is <<"empty">>, <<"image", img>> or
\* <<"junk">> (bytes PIL cannot open).
Ffmpeg(launch, timed_out, returncode, stdout, stderr) ==
    [launch |-> launch, timed_out |-> timed_out, returncode |-> returncode,
     stdout |-> stdout, stderr |-> stderr]

FrameOk(img) == [raised |-> FALSE, img |-> img, err |-> <<>>, killed |-> FALSE]
FrameError(err, killed) ==
    [raised |-> TRUE, img |-> "", err |-> <<"ffmpeg error">> \o err, killed |-> killed]

\* fetch_frame: the image, or RuntimeError("ffmpeg error: ...") for everything else
fetch_frame(p) ==
    IF p.launch # "ok" THEN FrameError(<<"No such file or directory">>, FALSE)
    ELSE IF p.timed_out THEN FrameError(<<"Timeout", "after">>, TRUE)
    ELSE IF p.returncode # 0 \/ p.stdout = StdoutEmpty
    THEN FrameError(IF p.stderr # <<>> THEN p.stderr ELSE <<"ffmpeg failed with code">>, FALSE)
    ELSE IF p.stdout[1] = "image" THEN FrameOk(p.stdout[2])
    ELSE FrameError(<<"cannot identify image file">>, FALSE)

\* calc_hashes: four hex strings, each a function of the image
calc_hashes(img) == [p |-> <<"phash", img>>, a |-> <<"ahash", img>>,
                     d |-> <<"dhash", img>>, w |-> <<"whash", img>>]

NoneList == [i \in DOMAIN GRAB_TIMES |-> PyNone]

\* the locals of process_url at the top of attempt `att`
UrlLocals(l, att) ==
    [l EXCEPT !.attempt = att, !.tp = 1, !.phashes = <<>>, !.ahashes = <<>>,
              !.dhashes = <<>>, !.whashes = <<>>]

UrlLocalsInit ==
    [attempt |-> 0, tp |-> 1, phashes |-> <<>>, ahashes |-> <<>>, dhashes |-> <<>>,
     whashes |-> <<>>, fail_count |-> 0, timeout_count |-> 0,
     network_error_count |-> 0, other_error_count |-> 0, success_count |-> 0,
     final_error |-> PyNone]

\* the (url, data) pair process_url returns
UrlData(url, l) ==
    <<url,
      [phash |-> l.phashes, ahash |-> l.ahashes, dhash |-> l.dhashes, whash |-> l.whashes,
       fail_count |-> l.fail_count, timeout_count |-> l.timeout_count,
       network_error_count |-> l.network_error_count,
       other_error_count |-> l.other_error_count, final_error |-> l.final_error,
       success_count |-> l.success_count]>>

\* mutant: only failures classified other_error count as other errors
CountFailureOtherOnly(l, err) ==
    LET err_type == classify_error(err) IN
    [l EXCEPT !.fail_count = @ + 1,
              !.final_error = PyStr(err),
              !.timeout_count = IF err_type = "timeout" THEN @ + 1 ELSE @,
              !.network_error_count = IF err_type = "network_error" THEN @ + 1 ELSE @,
              !.other_error_count = IF err_type = "other_error" THEN @ + 1 ELSE @]

\* the except branch: count the failure by its class
CountFailure(l, err) ==
    LET err_type == classify_error(err) IN
    [l EXCEPT !.fail_count = @ + 1,
              !.final_error = PyStr(err),
              !.timeout_count = IF err_type = "timeout" THEN @ + 1 ELSE @,
              !.network_error_count = IF err_type = "network_error" THEN @ + 1 ELSE @,
              !.other_error_count =
                  IF err_type \notin {"timeout", "network_error"} THEN @ + 1 ELSE @]

\* what ffmpeg does in a run with several tasks
GrabOutcomes ==
    {Ffmpeg("ok", FALSE, 0, <<"image", "imgA">>, <<>>),
     Ffmpeg("ok", TRUE, 0, StdoutEmpty, <<>>)}

\* main up to the first await: the stripped addresses that start with "http"
HashUrls(file) ==
    LET addr == [i \in DOMAIN file |-> Strip(file[i].url)] IN
    SelectSeq(addr, LAMBDA u : StartsWith(u, HttpPrefix))

HashStart ==
    /\ stage = "hash"
    /\ mainPc = "start"
    /\ rows' = HashUrls(input_file)
    /\ semaphore' = concurrency
    /\ NewTasks(Len(rows'))
    /\ mainPc' = "collect"
    /\ UNCHANGED <<cfgVars, callVars, done_queue, results, output_file, splitVars>>

\* async with semaphore: entry, and the locals before the loop
UrlAcquire(t) ==
    /\ stage = "hash"
    /\ pc[t] = "start"
    /\ SemFree(semaphore)
    /\ semaphore' = semaphore - 1
    /\ sem_ops' = [sem_ops EXCEPT ![t] = Acquired(@)]
    /\ local' = [local EXCEPT ![t] = UrlLocalsInit]
    /\ pc' = [pc EXCEPT ![t] = "grab"]
    /\ UNCHANGED <<cfgVars, callVars, mainVars, fastVars, last_proc, task_end>>

\* one await fetch_frame of the inner loop and what follows it up to the next
\* await or the return
UrlGrabOf(t, outcomes) ==
    /\ stage = "hash"
    /\ pc[t] = "grab"
    /\ \E p \in outcomes :
         LET l == local[t]
             f == fetch_frame(p)
             h == calc_hashes(f.img)
             got == [l EXCEPT !.phashes = Append(@, h.p), !.ahashes = Append(@, h.a),
                              !.dhashes = Append(@, h.d), !.whashes = Append(@, h.w),
                              !.success_count = @ + 1, !.tp = @ + 1]
             failed == CountFailure(l, f.err)
             gave_up == [failed EXCEPT !.phashes = NoneList, !.ahashes = NoneList,
                                       !.dhashes = NoneList, !.whashes = NoneList]
         IN  /\ last_proc' = [last_proc EXCEPT ![t] =
                                 ProcEnd(p.launch = "ok" /\ p.timed_out, f.killed)]
             /\ IF ~f.raised
                THEN IF l.tp < Len(GRAB_TIMES)
                     THEN /\ local' = [local EXCEPT ![t] = got]
                          /\ UNCHANGED <<pc, semaphore, sem_ops, done_queue>>
                     ELSE /\ local' = [local EXCEPT ![t] = <<>>]
                          /\ done_queue' = Append(done_queue,
                                 TaskReturn(UrlData(rows[t], [got EXCEPT !.final_error = PyNone])))
                          /\ pc' = [pc EXCEPT ![t] = "done"]
                          /\ semaphore' = semaphore + 1
                          /\ sem_ops' = [sem_ops EXCEPT ![t] = Released(@)]
                ELSE IF l.attempt < retries
                     THEN /\ local' = [local EXCEPT ![t] = failed]
                          /\ pc' = [pc EXCEPT ![t] = "retry_sleep"]
                          /\ UNCHANGED <<semaphore, sem_ops, done_queue>>
                     ELSE /\ local' = [local EXCEPT ![t] = <<>>]
                          /\ done_queue' = Append(done_queue, TaskReturn(UrlData(rows[t], gave_up)))
                          /\ pc' = [pc EXCEPT ![t] = "done"]
                          /\ semaphore' = semaphore + 1
                          /\ sem_ops' = [sem_ops EXCEPT ![t] = Released(@)]
    /\ LogEnd(t)
    /\ UNCHANGED <<cfgVars, callVars, mainPc, rows, results, output_file, splitVars,
                   fastVars>>

UrlGrab(t) == UrlGrabOf(t, GrabOutcomes)

\* asyncio.sleep(1) returns: the next attempt starts with cleared lists
UrlWake(t) ==
    /\ stage = "hash"
    /\ pc[t] = "retry_sleep"
    /\ local' = [local EXCEPT ![t] = UrlLocals(@, @.attempt + 1)]
    /\ pc' = [pc EXCEPT ![t] = "grab"]
    /\ UNCHANGED <<cfgVars, callVars, mainVars, fastVars, semaphore, sem_ops, last_proc, task_end>>

\* results[url] = data
DictSet(d, k, v) == [x \in DOMAIN d \cup {k} |-> IF x = k THEN v ELSE d[x]]

\* for f in as_completed(tasks): url, data = await f; results[url] = data
HashCollect ==
    /\ stage = "hash"
    /\ mainPc = "collect"
    /\ done_queue # <<>>
    /\ results' = DictSet(results, Head(done_queue).value[1], Head(done_queue).value[2])
    /\ done_queue' = Tail(done_queue)
    /\ UNCHANGED <<cfgVars, callVars, mainPc, rows, output_file, splitVars, taskVars>>

\* every task has been awaited: json.dump(results)
HashWrite ==
    /\ stage = "hash"
    /\ mainPc = "collect"
    /\ done_queue = <<>>
    /\ \A t \in Tasks : pc[t] = "done"
    /\ output_file' = Written(results)
    /\ mainPc' = "done"
    /\ UNCHANGED <<cfgVars, callVars, rows, done_queue, results, splitVars, taskVars>>

RetryChoices == {0, 1}

HashInit ==
    /\ stage = "hash"
    /\ input_file \in InputFiles
    /\ concurrency \in 1..MaxConcurrency
    /\ retries \in RetryChoices
    /\ NoCache
    /\ IdleRun
    /\ NoCall

HashNext ==
    \/ HashStart
    \/ \E t \in Tasks : UrlAcquire(t)
    \/ \E t \in Tasks : UrlGrab(t)
    \/ \E t \in Tasks : UrlWake(t)
    \/ HashCollect
    \/ HashWrite

SpecHash == HashInit /\ [][HashNext]_vars

\* --------------------------------------- process_url of one URL on its own
\* bound on --retry
MaxRetries == 2

\* what ffmpeg can do in a capture: an image, a timeout, no ffmpeg, an exit
\* code with a network error or another text on stderr, no output, output that
\* is no image
UrlGrabOutcomes ==
    GrabOutcomes
    \cup {Ffmpeg("not_found", FALSE, 0, StdoutEmpty, <<>>),
          Ffmpeg("ok", FALSE, 1, StdoutEmpty, <<"Connection refused">>),
          Ffmpeg("ok", FALSE, 1, StdoutEmpty, <<"Invalid data found">>),
          Ffmpeg("ok", FALSE, 0, StdoutEmpty, <<>>),
          Ffmpeg("ok", FALSE, 0, <<"junk">>, <<>>)}

UrlInit ==
    /\ stage = "hash"
    /\ input_file = <<Row(1, UrlHttp)>>
    /\ concurrency = 1
    /\ retries \in 0..MaxRetries
    /\ NoCache
    /\ IdleRun
    /\ NoCall

UrlNext ==
    \/ HashStart
    \/ \E t \in Tasks : UrlAcquire(t)
    \/ \E t \in Tasks : UrlGrabOf(t, UrlGrabOutcomes)
    \/ \E t \in Tasks : UrlWake(t)
    \/ HashCollect
    \/ HashWrite

SpecUrl == UrlInit /\ [][UrlNext]_vars

\* -------------------------------------------------------------- final scan
GRAB_TIMEPOINTS == <<1, 5, 10>>
GRAB_RETRY == 2
HASH_SIZE == 8
HASH_BITS == HASH_SIZE * HASH_SIZE
ThresholdPercent == 95    \* threshold=0.95

\* A 64-bit hash is given by the set of its one-bits (positions 0..HASH_BITS-1).
Bits(set) == <<"bits", set>>

\* mutant: only the bits a has and b lacks are counted
hamming_one_sided(a, b) == Cardinality(a[2] \ b[2])

\* (a ^ b).bit_count()
hamming(a, b) == Cardinality((a[2] \ b[2]) \cup (b[2] \ a[2]))

\* 1.0 - hamming / HASH_BITS, and 0.0 when a hash is missing
similarity_hash(h1, h2) ==
    IF h1 = PyNone \/ h2 = PyNone THEN Frac(0, 1)
    ELSE Frac(HASH_BITS - hamming(h1, h2), HASH_BITS)

HashKinds == {"phash", "ahash", "dhash"}

RECURSIVE SumNum(_, _, _)
SumNum(ks, h1, h2) ==
    IF ks = {} THEN 0
    ELSE LET k == CHOOSE x \in ks : TRUE IN
         similarity_hash(h1[k], h2[k])[1] + SumNum(ks \ {k}, h1, h2)

\* mutant: the sum is always divided by the number of hash kinds
average_similarity_fixed_len(h1, h2) ==
    LET both == {k \in HashKinds : h1[k] # PyNone /\ h2[k] # PyNone} IN
    IF both = {} THEN Frac(0, 1)
    ELSE Frac(SumNum(both, h1, h2), HASH_BITS * Cardinality(HashKinds))

\* mutant: a hash kind counts as soon as h1 has it
average_similarity_h1_only(h1, h2) ==
    LET sims == {k \in HashKinds : h1[k] # PyNone} IN
    IF sims = {} THEN Frac(0, 1)
    ELSE Frac(SumNum(sims, h1, h2), HASH_BITS * Cardinality(sims))

\* mean of the similarities of the hash kinds both sides have, else 0.0
average_similarity(h1, h2) ==
    LET both == {k \in HashKinds : h1[k] # PyNone /\ h2[k] # PyNone} IN
    IF both = {} THEN Frac(0, 1)
    ELSE Frac(SumNum(both, h1, h2), HASH_BITS * Cardinality(both))

\* image_to_phash_bytes / ahash / dhash of the frames ffmpeg can deliver
ImageHashes(img) ==
    CASE img = "imgA" ->
           [phash |-> Bits({0, 1, 2, 40}), ahash |-> Bits({3, 4, 63}), dhash |-> Bits({5, 6})]
      [] img = "imgB" ->
           [phash |-> Bits({0, 1, 2, 41}), ahash |-> Bits({3, 4, 63}), dhash |-> Bits({5, 7, 8})]
      [] img = "imgC" ->
           [phash |-> Bits(10..40), ahash |-> Bits({}), dhash |-> Bits(20..50)]

\* how a call of grab_frame ends: (img, err) or an exception, and whether it
\* killed the subprocess
GrabEnd(raised, img, err, killed) ==
    [raised |-> raised, img |-> img, err |-> err, killed |-> killed]

\* grab_frame: (img, err), or the launch error it does not catch
grab_frame(p) ==
    IF p.launch = "not_found"
    THEN GrabEnd(FALSE, PyNone, <<"ffmpeg_not_found">>, FALSE)
    ELSE IF p.launch # "ok" THEN GrabEnd(TRUE, PyNone, <<>>, FALSE)
    ELSE IF p.timed_out THEN GrabEnd(FALSE, PyNone, <<"timeout">>, TRUE)
    ELSE IF p.stdout # StdoutEmpty THEN GrabEnd(FALSE, p.stdout, <<>>, FALSE)
    ELSE GrabEnd(FALSE, PyNone, p.stderr, FALSE)

\* cache.get(url)
CacheGet(c, url) == IF url \in DOMAIN c THEN c[url] ELSE <<>>

\* the largest average similarity of a fresh frame to a cached entry
RECURSIVE MaxSim(_, _)
MaxSim(pairs, acc) ==
    IF pairs = {} THEN acc
    ELSE LET q == CHOOSE x \in pairs : TRUE IN
         MaxSim(pairs \ {q}, FracMax(acc, average_similarity(q[1], q[2])))

OneResult(url, st, errors, fake, sim) ==
    [url |-> url, status |-> st, errors |-> errors, is_fake |-> fake,
     is_loop |-> FALSE, similarity |-> sim]

\* mutant: a capture is missing as soon as one timepoint gave no frame
process_one_needs_all_frames(url, cache_for_url, frames) ==
    IF Len(frames) < Len(GRAB_TIMEPOINTS)
    THEN TaskReturn(OneResult(url, "error", <<"all_grab_failed">>, FALSE, Frac(0, 1)))
    ELSE IF \E i \in DOMAIN frames : frames[i][2][1] # "image" THEN TaskRaise
    ELSE TaskReturn(OneResult(url, "ok", <<>>, FALSE, Frac(1, 1)))

\* process_one once grab_frame_multi has returned `frames`: [raised, value];
\* hashing bytes that are no image raises
process_one(url, cache_for_url, frames) ==
    IF frames = <<>>
    THEN TaskReturn(OneResult(url, "error", <<"all_grab_failed">>, FALSE, Frac(0, 1)))
    ELSE IF \E i \in DOMAIN frames : frames[i][2][1] # "image" THEN TaskRaise
    ELSE LET real_hashes == {ImageHashes(frames[i][2][2]) : i \in DOMAIN frames}
             cached == UNION {{cache_for_url[d][tp] : tp \in DOMAIN cache_for_url[d]} :
                                d \in DOMAIN cache_for_url}
             max_sim == MaxSim(real_hashes \X cached, Frac(0, 1))
         IN  IF DOMAIN cache_for_url = {}
             THEN TaskReturn(OneResult(url, "ok", <<>>, FALSE, Frac(1, 1)))
             ELSE TaskReturn(OneResult(url, "ok", <<>>,
                                       max_sim[1] * 100 >= ThresholdPercent * max_sim[2],
                                       max_sim))

\* main: the non-empty addresses of the file
FinalUrls(file) ==
    LET addr == [i \in DOMAIN file |-> file[i].url] IN
    SelectSeq(addr, LAMBDA u : u # <<>>)

FinalStart ==
    /\ stage = "final"
    /\ mainPc = "start"
    /\ rows' = FinalUrls(input_file)
    /\ semaphore' = concurrency
    /\ NewTasks(Len(rows'))
    /\ mainPc' = "collect"
    /\ UNCHANGED <<cfgVars, callVars, done_queue, results, output_file, splitVars>>

\* async with sem: entry; cache_for_url = cache.get(url)
OneAcquire(t) ==
    /\ stage = "final"
    /\ pc[t] = "start"
    /\ SemFree(semaphore)
    /\ semaphore' = semaphore - 1
    /\ sem_ops' = [sem_ops EXCEPT ![t] = Acquired(@)]
    /\ local' = [local EXCEPT ![t] =
                    [cache_for_url |-> CacheGet(cache, rows[t]), tp |-> 1, try |-> 0,
                     frames |-> <<>>]]
    /\ pc' = [pc EXCEPT ![t] = "frames"]
    /\ UNCHANGED <<cfgVars, callVars, mainVars, fastVars, last_proc, task_end>>

\* mutant: a timepoint is left only after GRAB_RETRY attempts
ShotDoneNoBreak(try, got) == try + 1 >= GRAB_RETRY

\* grab_frame_multi is done with a timepoint: `if img: ... break`, or
\* range(retry) is used up
ShotDone(try, got) == got \/ try + 1 >= GRAB_RETRY

\* one await grab_frame of grab_frame_multi; after the last one process_one
\* runs to its return
OneGrabOf(t, outcomes) ==
    /\ stage = "final"
    /\ pc[t] = "frames"
    /\ \E p \in outcomes :
         LET l == local[t]
             g == grab_frame(p)
             got == g.img # PyNone
             frames == IF got THEN Append(l.frames, <<GRAB_TIMEPOINTS[l.tp], g.img>>)
                       ELSE l.frames
             next_tp == ShotDone(l.try, got)
             l2 == [l EXCEPT !.frames = frames,
                             !.tp = IF next_tp THEN @ + 1 ELSE @,
                             !.try = IF next_tp THEN 0 ELSE @ + 1]
             ended == process_one(rows[t], l.cache_for_url, frames)
         IN  /\ last_proc' = [last_proc EXCEPT ![t] =
                                 ProcEnd(p.launch = "ok" /\ p.timed_out, g.killed)]
             /\ IF g.raised \/ (next_tp /\ l.tp = Len(GRAB_TIMEPOINTS))
                THEN /\ local' = [local EXCEPT ![t] = <<>>]
                     /\ done_queue' = Append(done_queue, IF g.raised THEN TaskRaise ELSE ended)
                     /\ pc' = [pc EXCEPT ![t] =
                                 IF g.raised \/ ended.raised THEN "raised" ELSE "done"]
                     /\ semaphore' = semaphore + 1
                     /\ sem_ops' = [sem_ops EXCEPT ![t] = Released(@)]
                ELSE /\ local' = [local EXCEPT ![t] = l2]
                     /\ UNCHANGED <<done_queue, pc, semaphore, sem_ops>>
    /\ LogEnd(t)
    /\ UNCHANGED <<cfgVars, callVars, mainPc, rows, results, output_file, splitVars,
                   fastVars>>

OneGrab(t) == OneGrabOf(t, GrabOutcomes)

\* for fut in as_completed(tasks): results.append(await fut)
FinalCollect ==
    /\ stage = "final"
    /\ mainPc = "collect"
    /\ done_queue # <<>>
    /\ done_queue' = Tail(done_queue)
    /\ IF Head(done_queue).raised
       THEN /\ mainPc' = "crashed"
            /\ CancelPending
            /\ UNCHANGED results
       ELSE /\ results' = Append(results, Head(done_queue).value)
            /\ UNCHANGED <<mainPc, semaphore, pc, sem_ops>>
    /\ UNCHANGED <<cfgVars, callVars, rows, output_file, splitVars, fastVars, local, last_proc, task_end>>

\* run_all returns; main writes nothing after it
FinalEnd ==
    /\ stage = "final"
    /\ mainPc = "collect"
    /\ Len(results) = Len(rows)
    /\ mainPc' = "done"
    /\ UNCHANGED <<cfgVars, callVars, rows, done_queue, results, output_file, splitVars,
                   taskVars>>

\* total_cache.json: empty, or one bucket for one address
CacheSamples ==
    {<<>>,
     [u \in {UrlHttp} |-> [d20260101 |-> [t1 |-> ImageHashes("imgA")]]],
     [u \in {UrlHttp} |-> [d20260101 |-> [t1 |-> ImageHashes("imgB")]]]}

FinalInit ==
    /\ stage = "final"
    /\ input_file \in InputFiles
    /\ concurrency \in 1..MaxConcurrency
    /\ NoRetryArg
    /\ cache \in CacheSamples
    /\ IdleRun
    /\ NoCall

FinalNext ==
    \/ FinalStart
    \/ \E t \in Tasks : OneAcquire(t)
    \/ \E t \in Tasks : OneGrab(t)
    \/ FinalCollect
    \/ FinalEnd

SpecFinal == FinalInit /\ [][FinalNext]_vars

\* ------------------------------- the captures of one URL in the final scan
\* what ffmpeg can do in a capture: an image, a timeout, no ffmpeg, a launch
\* that fails otherwise, no output with a text on stderr, output that is no
\* image
ShotOutcomes ==
    GrabOutcomes
    \cup {Ffmpeg("ok", FALSE, 0, <<"image", "imgB">>, <<>>),
          Ffmpeg("not_found", FALSE, 0, StdoutEmpty, <<>>),
          Ffmpeg("denied", FALSE, 0, StdoutEmpty, <<>>),
          Ffmpeg("ok", FALSE, 1, StdoutEmpty, <<"Connection refused">>),
          Ffmpeg("ok", FALSE, 0, <<"junk">>, <<>>)}

ShotsInit ==
    /\ stage = "final"
    /\ input_file = <<Row(1, UrlHttp)>>
    /\ concurrency = 1
    /\ NoRetryArg
    /\ cache \in CacheSamples
    /\ IdleRun
    /\ NoCall

ShotsNext ==
    \/ FinalStart
    \/ \E t \in Tasks : OneAcquire(t)
    \/ \E t \in Tasks : OneGrabOf(t, ShotOutcomes)
    \/ FinalCollect
    \/ FinalEnd

SpecShots == ShotsInit /\ [][ShotsNext]_vars

\* ------------------------------------- similarity_hash called on its own
MaxHashBits == 3

\* 64-bit hashes: every choice among a few bit positions (the top bit among
\* them), and the complement of each
SampleBits == (0..(MaxHashBits - 2)) \cup {HASH_BITS - 1}
HashSamples ==
    {Bits(b) : b \in SUBSET SampleBits}
    \cup {Bits((0..(HASH_BITS - 1)) \ b) : b \in SUBSET SampleBits}

SimInit ==
    /\ stage = "none"
    /\ input_file = <<>>
    /\ concurrency = 1
    /\ NoRetryArg
    /\ NoCache
    /\ IdleRun
    /\ call_fn = "similarity_hash"
    /\ call_arg \in HashSamples \X HashSamples
    /\ call_ret = NotCalled

SimCall ==
    /\ call_fn = "similarity_hash"
    /\ call_ret = NotCalled
    /\ call_ret' = Returned(similarity_hash(call_arg[1], call_arg[2]))
    /\ UNCHANGED <<cfgVars, mainVars, taskVars, call_fn, call_arg>>

SpecSim == SimInit /\ [][SimCall]_vars

\* --------------------------------- average_similarity called on its own
MaxFpBits == 1

\* the hash of one kind in a fingerprint set: missing, or a 64-bit value
\* (every choice among the lowest bit positions, and all bits set)
FpHashSamples ==
    {PyNone} \cup {Bits(b) : b \in SUBSET (0..(MaxFpBits - 1))}
             \cup {Bits(0..(HASH_BITS - 1))}
FpSamples == [HashKinds -> FpHashSamples]

AvgInit ==
    /\ stage = "none"
    /\ input_file = <<>>
    /\ concurrency = 1
    /\ NoRetryArg
    /\ NoCache
    /\ IdleRun
    /\ call_fn = "average_similarity"
    /\ call_arg \in FpSamples \X FpSamples
    /\ call_ret = NotCalled

AvgCall ==
    /\ call_fn = "average_similarity"
    /\ call_ret = NotCalled
    /\ call_ret' = Returned(average_similarity(call_arg[1], call_arg[2]))
    /\ UNCHANGED <<cfgVars, mainVars, taskVars, call_fn, call_arg>>

SpecAvg == AvgInit /\ [][AvgCall]_vars

\* ------------------------------------------ process_one called on its own
\* the date keys of total_cache.json, oldest first
BucketKeys == <<"20260101", "20260102">>
OneImages == {"imgA", "imgB", "imgC"}

\* a cached timepoint entry as load_cache_advanced builds it: the three
\* hashes of an image, or None for each when the capture had failed
NoneHashes == [k \in HashKinds |-> PyNone]
TpSamples ==
    {[tp \in {"0811"} |-> ImageHashes(i)] : i \in OneImages}
    \cup {[tp \in {"0811"} |-> NoneHashes]}

\* cache.get(url): nothing, or some buckets
CacheForUrlSamples ==
    UNION {[ks -> TpSamples] : ks \in SUBSET {BucketKeys[i] : i \in DOMAIN BucketKeys}}

\* what grab_frame_multi can return: for each timepoint at most one frame, in
\* the order of the timepoints; a frame is the stdout of ffmpeg
FrameBytes == {<<"image", i>> : i \in OneImages} \cup {StdoutText}
RECURSIVE FramesFrom(_)
FramesFrom(i) ==
    IF i > Len(GRAB_TIMEPOINTS) THEN {<<>>}
    ELSE LET rest == FramesFrom(i + 1) IN
         rest \cup {<<<<GRAB_TIMEPOINTS[i], b>>>> \o r : b \in FrameBytes, r \in rest}

OneInit ==
    /\ stage = "none"
    /\ input_file = <<>>
    /\ concurrency = 1
    /\ NoRetryArg
    /\ NoCache
    /\ IdleRun
    /\ call_fn = "process_one"
    /\ call_arg \in [cache_for_url : CacheForUrlSamples, frames : FramesFrom(1)]
    /\ call_ret = NotCalled

OneCall ==
    /\ call_fn = "process_one"
    /\ call_ret = NotCalled
    /\ call_ret' = Returned(process_one(UrlHttp, call_arg.cache_for_url, call_arg.frames))
    /\ UNCHANGED <<cfgVars, mainVars, taskVars, call_fn, call_arg>>

SpecOne == OneInit /\ [][OneCall]_vars

\* ------------------------------------------------- 7.1_merge_hash.py: main
\* A dict is the sequence of its <<key, value>> items in insertion order, the
\* order json.dump writes them in.
Keys(d) == [i \in DOMAIN d |-> d[i][1]]
KeySet(d) == {d[i][1] : i \in DOMAIN d}
Has(d, k) == k \in KeySet(d)
Get(d, k) == d[CHOOSE i \in DOMAIN d : d[i][1] = k][2]
\* d[k] = v: a new key goes to the end, a present key keeps its place
Set(d, k, v) ==
    IF Has(d, k) THEN [i \in DOMAIN d |-> IF d[i][1] = k THEN <<k, v>> ELSE d[i]]
    ELSE Append(d, <<k, v>>)
\* del d[k] for every k in ks
Del(d, ks) == SelectSeq(d, LAMBDA item : item[1] \notin ks)

\* sorted(keys): ascending. The keys sorted here (URLs, time tags
\* YYYYMMDDHHMM, dates YYYYMMDD) are given by their rank in string order.
RECURSIVE SortedKeys(_)
SortedKeys(ks) ==
    IF ks = {} THEN <<>>
    ELSE LET m == CHOOSE x \in ks : \A y \in ks : x <= y IN <<m>> \o SortedKeys(ks \ {m})

\* A file that holds JSON: missing, not valid JSON, or a document
FileMissing == <<"missing">>
FileCorrupt == <<"corrupt">>
FileJson(doc) == <<"json", doc>>

MAX_HISTORY == 6
MaxTags == 7

TimeTags == 1..MaxTags

\* load_json_safe: {} for no file and for JSONDecodeError
load_json_safe(file) ==
    IF file = FileMissing THEN [raised |-> FALSE, value |-> <<>>]
    ELSE IF file = FileCorrupt THEN [raised |-> FALSE, value |-> <<>>]
    ELSE [raised |-> FALSE, value |-> file[2]]

\* mutant: the oldest buckets are kept
EvictNewest(buckets) ==
    IF Len(buckets) > MAX_HISTORY
    THEN LET sorted_keys == SortedKeys(KeySet(buckets)) IN
         Del(buckets, {sorted_keys[i] : i \in (MAX_HISTORY + 1)..Len(sorted_keys)})
    ELSE buckets

\* if len(total_data[url]) > MAX_HISTORY: delete sorted_keys[:-MAX_HISTORY]
Evict(buckets) ==
    IF Len(buckets) > MAX_HISTORY
    THEN LET sorted_keys == SortedKeys(KeySet(buckets)) IN
         Del(buckets, {sorted_keys[i] : i \in 1..(Len(sorted_keys) - MAX_HISTORY)})
    ELSE buckets

\* mutant: a bucket is stored under a key of its own each time
MergeUrlAppend(total_data, url, time_tag, result) ==
    LET node == IF Has(total_data, url) THEN Get(total_data, url) ELSE <<>> IN
    Set(IF Has(total_data, url) THEN total_data ELSE Append(total_data, <<url, <<>>>>),
        url, Evict(Append(node, <<time_tag, result>>)))

\* mutant: a bucket the URL holds already is left as it is
MergeUrlKeep(total_data, url, time_tag, result) ==
    LET with_node == IF Has(total_data, url) THEN total_data
                     ELSE Append(total_data, <<url, <<>>>>)
        node == Get(with_node, url)
    IN  Set(with_node, url,
            Evict(IF Has(node, time_tag) THEN node ELSE Set(node, time_tag, result)))

\* the body of `for url, result in chunk_data.items()`
MergeUrl(total_data, url, time_tag, result) ==
    LET with_node == IF Has(total_data, url) THEN total_data
                     ELSE Append(total_data, <<url, <<>>>>)
    IN  Set(with_node, url, Evict(Set(Get(with_node, url), time_tag, result)))

\* one chunk file merged
RECURSIVE MergeChunk(_, _, _)
MergeChunk(total_data, chunk_data, time_tag) ==
    IF chunk_data = <<>> THEN total_data
    ELSE MergeChunk(MergeUrl(total_data, Head(chunk_data)[1], time_tag, Head(chunk_data)[2]),
                    Tail(chunk_data), time_tag)

\* `for fname in files`: [raised, value]; json.load of a chunk file is not guarded
RECURSIVE MergeFiles(_, _, _)
MergeFiles(total_data, files, time_tag) ==
    IF files = <<>> THEN [raised |-> FALSE, value |-> total_data]
    ELSE IF Head(files)[1] # "json" THEN [raised |-> TRUE, value |-> <<>>]
    ELSE MergeFiles(MergeChunk(total_data, Head(files)[2], time_tag), Tail(files), time_tag)

\* how a run of main ends, and the total file after it
MergeEnd(how, file) == [how |-> how, file |-> file]
MergeHashEnd(total_file, merged) ==
    IF merged.raised THEN MergeEnd("raised", total_file)
    ELSE MergeEnd("written", FileJson(merged.value))

\* mutant: only the entries of this run are written
merge_hash_fresh(total_file, files, time_tag) ==
    IF files = <<>> THEN MergeEnd("nothing_to_merge", total_file)
    ELSE MergeHashEnd(total_file, MergeFiles(<<>>, files, time_tag))

\* main: `files` are the *.json files of the chunk directory in the order
\* os.listdir gives them
merge_hash(total_file, files, time_tag) ==
    IF files = <<>> THEN MergeEnd("nothing_to_merge", total_file)
    ELSE MergeHashEnd(total_file,
                      MergeFiles(load_json_safe(total_file).value, files, time_tag))

\* The chunk files of the hash scan hold the data of their URLs (one of them
\* was cut off while it was written), and what os.listdir can give.
ChunkU1 == FileJson(<<<<1, "data1">>>>)
ChunkU2 == FileJson(<<<<2, "data2">>>>)
Listings == {<<>>, <<ChunkU1>>, <<FileCorrupt>>}
\* chunk files of a later scan: other data for URL 1, and both URLs in one file
ChunkU1b == FileJson(<<<<1, "data1b">>>>)
ChunkBoth == FileJson(<<<<2, "data2b">>, <<1, "data1c">>>>)

\* the URLs of the chunk files of a listing
ListedUrls(files) ==
    UNION {IF files[i][1] = "json" THEN KeySet(files[i][2]) ELSE {} : i \in DOMAIN files}

\* ------------------------------------------ D_merge_cache.py: merge_caches
TIME_KEYS == <<"0811", "1612", "2113">>

\* recent_3days: today and the two days before it
RecentDays(today) == <<today, today - 1, today - 2>>

\* the total cache without the dates that are not recent and without the
\* URLs that have no date left
RECURSIVE Purge(_, _)
Purge(merged, recent) ==
    IF merged = <<>> THEN <<>>
    ELSE LET date_dict == SelectSeq(Head(merged)[2], LAMBDA item : item[1] \in recent) IN
         (IF date_dict = <<>> THEN <<>> ELSE <<<<Head(merged)[1], date_dict>>>>)
         \o Purge(Tail(merged), recent)

\* hashes.get(k)
HashesGet(hashes, k) == IF k \in DOMAIN hashes THEN hashes[k] ELSE PyNone
CacheEntry(hashes) ==
    [phash |-> HashesGet(hashes, "phash"), ahash |-> HashesGet(hashes, "ahash"),
     dhash |-> HashesGet(hashes, "dhash"), error |-> HashesGet(hashes, "error")]

SetDefault(d, k) == IF Has(d, k) THEN d ELSE Append(d, <<k, <<>>>>)

\* for timepoint, hashes in timepoint_data.items()
RECURSIVE MergeTimepoints(_, _)
MergeTimepoints(bucket, timepoint_data) ==
    IF timepoint_data = <<>> THEN bucket
    ELSE MergeTimepoints(Set(bucket, Head(timepoint_data)[1],
                             CacheEntry(Head(timepoint_data)[2])),
                         Tail(timepoint_data))

\* the loop over the timepoints of one URL, after the two setdefault calls
SetTimepoints(date_dict, date_dir, timepoint_data) ==
    Set(date_dict, date_dir, MergeTimepoints(Get(date_dict, date_dir), timepoint_data))
SetBucket(merged, url, date_dir, timepoint_data) ==
    Set(merged, url,
        SetTimepoints(SetDefault(Get(merged, url), date_dir), date_dir, timepoint_data))
MergeCacheUrl(merged, url, date_dir, timepoint_data) ==
    SetBucket(SetDefault(merged, url), url, date_dir, timepoint_data)

\* for url, timepoint_data in data.items()
RECURSIVE MergeCacheData(_, _, _)
MergeCacheData(merged, data, date_dir) ==
    IF data = <<>> THEN merged
    ELSE MergeCacheData(MergeCacheUrl(merged, Head(data)[1], date_dir, Head(data)[2]),
                        Tail(data), date_dir)

\* A file of a date directory: its name ends with _cache.json or not
DirFile(named, file) == [named |-> named, file |-> file]

\* for fname in os.listdir(cache_path): other names and unreadable files are
\* skipped
RECURSIVE MergeCacheFiles(_, _, _)
MergeCacheFiles(merged, files, date_dir) ==
    IF files = <<>> THEN merged
    ELSE MergeCacheFiles(
             IF Head(files).named /\ Head(files).file[1] = "json"
             THEN MergeCacheData(merged, Head(files).file[2], date_dir)
             ELSE merged,
             Tail(files), date_dir)

\* for date_dir in dates_to_merge
RECURSIVE MergeDates(_, _, _)
MergeDates(merged, dates_to_merge, dirs) ==
    IF dates_to_merge = <<>> THEN merged
    ELSE MergeDates(MergeCacheFiles(merged, Get(dirs, Head(dates_to_merge)),
                                    Head(dates_to_merge)),
                    Tail(dates_to_merge), dirs)

\* ordered_timepoint: the timepoints of TIME_KEYS, in that order
OrderedTimepoints(bucket) ==
    LET present == SelectSeq(TIME_KEYS, LAMBDA tk : Has(bucket, tk)) IN
    [i \in DOMAIN present |-> <<present[i], Get(bucket, present[i])>>]

\* ordered_date_dict
OrderedDates(date_dict) ==
    LET ks == SortedKeys(KeySet(date_dict)) IN
    [i \in DOMAIN ks |-> <<ks[i], OrderedTimepoints(Get(date_dict, ks[i]))>>]

\* sorted_merged
SortedMerged(merged) ==
    LET ks == SortedKeys(KeySet(merged)) IN
    [i \in DOMAIN ks |-> <<ks[i], OrderedDates(Get(merged, ks[i]))>>]

\* the cache directory: missing, or the listing of each date directory
NoCacheDir == [exists |-> FALSE, dirs |-> <<>>]
CacheDir(dirs) == [exists |-> TRUE, dirs |-> dirs]

\* `if os.path.exists(TOTAL_CACHE_FILE): merged = json.load(f) else: merged = {}`
TotalCacheLoad(total_file) ==
    IF total_file = FileMissing THEN [raised |-> FALSE, value |-> <<>>]
    ELSE IF total_file = FileCorrupt THEN [raised |-> TRUE, value |-> <<>>]
    ELSE [raised |-> FALSE, value |-> total_file[2]]

MergeCacheEnd(total_file, loaded, recent, dates_to_merge, dirs) ==
    IF loaded.raised THEN MergeEnd("raised", total_file)
    ELSE MergeEnd("written",
                  FileJson(SortedMerged(MergeDates(Purge(loaded.value, recent),
                                                   dates_to_merge, dirs))))

\* merge_caches; the date directories are the ones with digit names
RecentExist(recent, dirs) == SelectSeq(recent, LAMBDA d : Has(dirs, d))
merge_caches(total_file, cache_dir, today) ==
    IF ~cache_dir.exists THEN MergeEnd("no_cache_dir", total_file)
    ELSE IF RecentExist(RecentDays(today), cache_dir.dirs) = <<>>
    THEN MergeEnd("nothing_recent", total_file)
    ELSE MergeCacheEnd(total_file, TotalCacheLoad(total_file),
                       {RecentDays(today)[i] : i \in 1..3},
                       RecentExist(RecentDays(today), cache_dir.dirs), cache_dir.dirs)

\* ------------------------------------------------ runs of the merge steps
\* Runs of 7.1_merge_hash.py on its total file, or of D_merge_cache.py on its
\* total file, one after the other. For the first, call_arg keeps the
\* (url, time tag) pairs merged so far.
MergeInit ==
    /\ stage = "none"
    /\ input_file = <<>>
    /\ concurrency = 1
    /\ NoRetryArg
    /\ cache \in {FileMissing, FileCorrupt}
    /\ IdleRun
    /\ call_fn \in {"merge_hash", "merge_caches"}
    /\ call_arg = {}
    /\ call_ret = NotCalled

MergeHashRun ==
    /\ call_fn = "merge_hash"
    /\ \E time_tag \in TimeTags, files \in Listings :
       \E end \in {merge_hash(cache, files, time_tag)} :
         /\ cache' = end.file
         /\ call_ret' = Returned(end.how)
         /\ call_arg' = IF end.how = "written"
                         THEN call_arg \cup {<<u, time_tag>> : u \in ListedUrls(files)}
                         ELSE call_arg
    /\ UNCHANGED <<stage, input_file, concurrency, retries, mainVars, taskVars, call_fn>>

\* bound on the days the clock runs over
MaxDays == 2
Todays == 3..(MaxDays + 2)
Dates == 1..(MaxDays + 2)

\* the entries of the chunk cache files: the hashes of a capture, or its error
EntryHashes == [phash |-> "a5", ahash |-> "0f", dhash |-> "3c"]
EntryError == [error |-> "timeout"]
CacheChunk1 == FileJson(<<<<1, <<<<"0811", EntryHashes>>>>>>>>)
CacheChunk2 ==
    FileJson(<<<<2, <<<<"2113", EntryError>>, <<"0000", EntryHashes>>, <<"0811", EntryHashes>>>>>>,
               <<1, <<<<"1612", EntryHashes>>>>>>>>)
DirListings ==
    {<<DirFile(TRUE, CacheChunk1), DirFile(TRUE, CacheChunk2)>>,
     <<DirFile(TRUE, CacheChunk2), DirFile(TRUE, CacheChunk1)>>,
     <<DirFile(TRUE, FileCorrupt), DirFile(FALSE, CacheChunk1), DirFile(TRUE, CacheChunk2)>>}
CacheDirSamples ==
    {NoCacheDir}
    \cup {CacheDir(<<<<d, l>>>>) : d \in Dates, l \in DirListings}
    \cup {CacheDir(<<<<d, l>>, <<d - 1, l>>>>) : d \in Dates \ {1}, l \in DirListings}

\* merge_record["last_merged_date"] = recent_exist_dates[-1]
LastMerged(recent_exist_dates) == recent_exist_dates[Len(recent_exist_dates)]

\* load_merge_record, the assignment and save_merge_record: the record file
\* after a run that wrote the total cache
SavedRecord(record_file, today, cache_dir) ==
    Written(Set(IF record_file = NotWritten THEN <<>> ELSE record_file[1],
                "last_merged_date",
                LastMerged(RecentExist(RecentDays(today), cache_dir.dirs))))

\* A run of merge_caches on a day and a chunk cache directory, which call_arg
\* keeps. output_file is merge_record.json here.
MergeCacheRun ==
    /\ call_fn = "merge_caches"
    /\ \E today \in Todays, cache_dir \in CacheDirSamples :
       \E end \in {merge_caches(cache, cache_dir, today)} :
         /\ cache' = end.file
         /\ call_ret' = Returned(end.how)
         /\ call_arg' = [today |-> today, cache_dir |-> cache_dir]
         /\ output_file' = IF end.how = "written"
                            THEN SavedRecord(output_file, today, cache_dir)
                            ELSE output_file
    /\ UNCHANGED <<stage, input_file, concurrency, retries, mainPc, rows, done_queue, results,
                   splitVars, taskVars, call_fn>>

SpecMerge == MergeInit /\ [][MergeHashRun \/ MergeCacheRun]_vars

\* ------------------------------------ the loaders of the cache backing files

HexDigits == <<"0", "1", "2", "3", "4", "5", "6", "7", "8", "9", "a", "b", "c", "d", "e", "f">>
IsHexDigit(c) == \E i \in DOMAIN HexDigits : HexDigits[i] = c
HexDigitValue(c) == (CHOOSE i \in DOMAIN HexDigits : HexDigits[i] = c) - 1

\* int(chars, 16) of a string of hex digits, and the hash it stands for
RECURSIVE HexValue(_, _)
HexValue(acc, chars) ==
    IF chars = <<>> THEN acc
    ELSE HexValue(acc * 16 + HexDigitValue(Head(chars)), Tail(chars))
RECURSIVE OneBits(_, _)
OneBits(n, i) ==
    IF n = 0 THEN {}
    ELSE (IF n % 2 = 1 THEN {i} ELSE {}) \cup OneBits(n \div 2, i + 1)
BitsOf(n) == Bits(OneBits(n, 0))

\* v.get(k) is falsy: the key is missing, null or ""
Falsy(x) == x = PyNone \/ x = <<>>
\* int(v[k], 16) raises ValueError
BadHex(x) == ~Falsy(x) /\ \E i \in DOMAIN x : ~IsHexDigit(x[i])
\* int(v[k], 16) if v.get(k) else None
LoadHash(x) == IF Falsy(x) THEN PyNone ELSE BitsOf(HexValue(0, x))
LoadEntry(v) == [k \in HashKinds |-> LoadHash(HashesGet(v, k))]
LoadTimepoints(tps) == [i \in DOMAIN tps |-> <<tps[i][1], LoadEntry(tps[i][2])>>]
LoadDates(dates) == [i \in DOMAIN dates |-> <<dates[i][1], LoadTimepoints(dates[i][2])>>]
LoadRaises(raw) ==
    \E i \in DOMAIN raw : \E j \in DOMAIN raw[i][2] : \E n \in DOMAIN raw[i][2][j][2] :
        \E k \in HashKinds : BadHex(HashesGet(raw[i][2][j][2][n][2], k))

\* load_cache_advanced: the cache it returns (the raw document is dropped by
\* main). Only a missing file is looked for; json.load and int() may raise.
load_cache_advanced(total_cache_file) ==
    IF total_cache_file = FileMissing THEN [raised |-> FALSE, value |-> <<>>]
    ELSE IF total_cache_file = FileCorrupt THEN [raised |-> TRUE, value |-> <<>>]
    ELSE IF LoadRaises(total_cache_file[2]) THEN [raised |-> TRUE, value |-> <<>>]
    ELSE [raised |-> FALSE,
          value |-> [i \in DOMAIN total_cache_file[2] |->
                        <<total_cache_file[2][i][1], LoadDates(total_cache_file[2][i][2])>>]]

\* the values of a hash in a backing file: null, "", hex digits, or other text
HexSamples == {PyNone, <<>>, <<"a", "5">>, <<"0", "f">>, <<"z", "z">>}
LoadFiles ==
    {FileMissing, FileCorrupt}
    \cup {FileJson(<<<<1, <<<<1, <<<<"0811", v>>>>>>>>>>>>) : v \in [HashKinds -> HexSamples]}
Loaders == {"load_json_safe", "merge_caches", "load_cache_advanced"}

LoadInit ==
    /\ stage = "none"
    /\ input_file = <<>>
    /\ concurrency = 1
    /\ NoRetryArg
    /\ NoCache
    /\ IdleRun
    /\ call_fn \in Loaders
    /\ call_arg \in LoadFiles
    /\ call_ret = NotCalled

\* the backing file is loaded: by load_json_safe, by the head of
\* merge_caches, or by load_cache_advanced
LoadCall ==
    /\ call_fn \in Loaders
    /\ call_ret = NotCalled
    /\ call_ret' = Returned(CASE call_fn = "load_json_safe" -> load_json_safe(call_arg)
                             [] call_fn = "merge_caches" -> TotalCacheLoad(call_arg)
                             [] call_fn = "load_cache_advanced" -> load_cache_advanced(call_arg))
    /\ UNCHANGED <<cfgVars, mainVars, taskVars, call_fn, call_arg>>

SpecLoad == LoadInit /\ [][LoadCall]_vars

\* ------------------------------------- 1_download_m3u.py: download_list
CONCURRENCY == 10
\* bound on the lines of input/source/my.txt
MaxUrls == 4

\* rename_map: index in downloaded_files (from 1 here) -> new name
RenameMap == <<"1sddxzb.m3u", "2sddxdb.m3u", "3jnltzb.m3u">>

\* url_list: the i-th URL of the file and the file name parse_url_line gives it
FileNames == <<"a.m3u", "b.m3u", "c.m3u", "d.m3u", "e.m3u", "f.m3u">>
UrlEntry(i) == [name |-> i, url |-> <<"url", i>>, filename |-> FileNames[i]]
UrlLists == {[i \in 1..n |-> UrlEntry(i)] : n \in 1..MaxUrls}

\* what session.get can meet: status 200 with a body, or anything else
DownloadOutcomes == {"ok", "failed"}

\* download_file: on 200 the body is written to save_path; (success, err)
download_file(dir, entry, outcome) ==
    IF outcome = "ok" THEN [success |-> TRUE, dir |-> Set(dir, entry.filename, entry.url)]
    ELSE [success |-> FALSE, dir |-> dir]

\* one turn of the loop of rename_mysource_files_async: new_path is removed
\* if it exists, then orig_path is renamed (a failure is printed only)
RenameOne(dir, orig_name, new_name) ==
    LET cleared == Del(dir, {new_name}) IN
    IF Has(cleared, orig_name)
    THEN Append(Del(cleared, {orig_name}), <<new_name, Get(cleared, orig_name)>>)
    ELSE cleared

\* rename_mysource_files_async from index idx on
RECURSIVE rename_mysource_files(_, _, _)
rename_mysource_files(dir, downloaded_files, idx) ==
    IF idx > Len(downloaded_files) THEN dir
    ELSE rename_mysource_files(
             IF idx \in DOMAIN RenameMap
             THEN RenameOne(dir, downloaded_files[idx], RenameMap[idx])
             ELSE dir,
             downloaded_files, idx + 1)

\* download_list(MY_URLS_FILE, MY_SAVE_DIR, clean_old_files=False,
\* do_rename=True). input_file is url_list here and output_file the
\* directory input/download/my, name -> content.
DownloadInit ==
    /\ stage = "download"
    /\ input_file \in UrlLists
    /\ concurrency = CONCURRENCY
    /\ NoRetryArg
    /\ NoCache
    /\ IdleRun
    /\ NoCall

\* the tasks are made and handed to as_completed
DownloadStart ==
    /\ stage = "download"
    /\ mainPc = "start"
    /\ rows' = input_file
    /\ semaphore' = concurrency
    /\ NewTasks(Len(rows'))
    /\ mainPc' = "collect"
    /\ UNCHANGED <<cfgVars, callVars, done_queue, results, output_file, splitVars>>

\* async with semaphore: entry
SemTaskAcquire(t) ==
    /\ stage = "download"
    /\ pc[t] = "start"
    /\ SemFree(semaphore)
    /\ semaphore' = semaphore - 1
    /\ sem_ops' = [sem_ops EXCEPT ![t] = Acquired(@)]
    /\ pc' = [pc EXCEPT ![t] = "get"]
    /\ UNCHANGED <<cfgVars, callVars, mainVars, fastVars, local, last_proc, task_end>>

\* await download_file(...) returns and sem_task returns filename or None
SemTaskGet(t) ==
    /\ stage = "download"
    /\ pc[t] = "get"
    /\ \E outcome \in DownloadOutcomes :
       \E got \in {download_file(output_file, rows[t], outcome)} :
         /\ output_file' = got.dir
         /\ done_queue' = Append(done_queue,
                TaskReturn(IF got.success THEN PyStr(rows[t].filename) ELSE PyNone))
    /\ pc' = [pc EXCEPT ![t] = "done"]
    /\ semaphore' = semaphore + 1
    /\ sem_ops' = [sem_ops EXCEPT ![t] = Released(@)]
    /\ LogEnd(t)
    /\ UNCHANGED <<cfgVars, callVars, mainPc, rows, results, splitVars, fastVars, local,
                   last_proc>>

\* for future in as_completed(tasks): results.append(await future)
DownloadCollect ==
    /\ stage = "download"
    /\ mainPc = "collect"
    /\ done_queue # <<>>
    /\ results' = Append(results, Head(done_queue).value)
    /\ done_queue' = Tail(done_queue)
    /\ UNCHANGED <<cfgVars, callVars, mainPc, rows, output_file, splitVars, taskVars>>

\* downloaded_files = [f for f in results if f], then the renaming
DownloadRename ==
    /\ stage = "download"
    /\ mainPc = "collect"
    /\ Len(results) = Len(rows)
    /\ LET succeeded == SelectSeq(results, LAMBDA f : f # PyNone)
           downloaded_files == [i \in DOMAIN succeeded |-> succeeded[i][2]]
       IN  output_file' = rename_mysource_files(output_file, downloaded_files, 1)
    /\ mainPc' = "done"
    /\ UNCHANGED <<cfgVars, callVars, rows, done_queue, results, splitVars, taskVars>>

DownloadNext ==
    \/ DownloadStart
    \/ \E t \in Tasks : SemTaskAcquire(t)
    \/ \E t \in Tasks : SemTaskGet(t)
    \/ DownloadCollect
    \/ DownloadRename

SpecDownload == DownloadInit /\ [][DownloadNext]_vars

\* ------------------------------------- 6.3_final_scan.py: main, run after run
\* bound on the runs of the final scan
MaxRuns == 4

\* what grab_frame_multi returns in a run: no frame, or the frame of the first
\* timepoint
RunFrames == {<<>>} \cup {<<<<GRAB_TIMEPOINTS[1], b>>>> : b \in FrameBytes}

\* cache is total_cache.json, the only file of fingerprints main opens;
\* results is the log of the runs: the frames captured and what process_one
\* made of them
RunsInit ==
    /\ stage = "none"
    /\ input_file = <<>>
    /\ concurrency = 1
    /\ NoRetryArg
    /\ cache \in CacheSamples
    /\ IdleRun
    /\ call_fn = "main"
    /\ call_arg = <<>>
    /\ call_ret = NotCalled

\* One run of main for one address: load_cache_advanced, run_all, and the
\* end of main ("输出逻辑保持不变（略）"): no file is written.
FinalRun ==
    /\ call_fn = "main"
    /\ Len(results) < MaxRuns
    /\ \E frames \in RunFrames :
         results' = Append(results,
                           [frames |-> frames,
                            ret |-> process_one(UrlHttp, CacheGet(cache, UrlHttp), frames)])
    /\ UNCHANGED <<cfgVars, callVars, mainPc, rows, done_queue, output_file, splitVars,
                   taskVars>>

SpecRuns == RunsInit /\ [][FinalRun]_vars

\* --------------------------------------------- PTS check: probe_pts alone
MaxFrames == 6
MinPts == 5          \* len(pts_list) < 5
PtsTolerance == 1    \* backward <= 1

\* One run of ffprobe under subprocess.run; stdout is StdoutText or
\* StdoutJson(frames), frames being the pkt_pts_time entries (PyNone when the
\* frame has none).
PtsProc(launch, timed_out, returncode, stdout, stderr) ==
    [launch |-> launch, timed_out |-> timed_out, returncode |-> returncode,
     stdout |-> stdout, stderr |-> stderr]

\* float(pts) for every frame that has a pts; ValueError skips the frame
RECURSIVE PtsList(_)
PtsList(frames) ==
    IF frames = <<>> THEN <<>>
    ELSE LET pts == Head(frames)
             v == IF pts = PyNone THEN <<>> ELSE ParseFloat(pts[2])
         IN  v \o PtsList(Tail(frames))

\* mutant: one sample more is asked for
TooFewPtsInclusive(n) == n <= MinPts

TooFewPts(n) == n < MinPts

\* mutant: a repeated timestamp does not count as a step back
IsBackwardStrict(prev, cur) == FracLeq(cur, prev) /\ ~FracEq(cur, prev)

\* pts_list[i] <= pts_list[i - 1]
IsBackward(prev, cur) == FracLeq(cur, prev)

Backward(pts_list) ==
    Cardinality({i \in 2..Len(pts_list) : IsBackward(pts_list[i - 1], pts_list[i])})

ListMax(l) == CHOOSE x \in {l[i] : i \in DOMAIN l} : \A j \in DOMAIN l : FracLeq(l[j], x)
ListMin(l) == CHOOSE x \in {l[i] : i \in DOMAIN l} : \A j \in DOMAIN l : FracLeq(x, l[j])
FracSub(x, y) == Frac(x[1] * y[2] - y[1] * x[2], x[2] * y[2])
\* round(x, 3) of a non-negative x, in thousandths
Round3(x) == Frac((x[1] * 2000 + x[2]) \div (2 * x[2]), 1000)

\* how a call of probe_pts ends: its dict, or the exception it lets through
PtsReturn(v) == [raised |-> FALSE, value |-> v]
PtsRaise == [raised |-> TRUE, value |-> <<>>]

\* probe_pts; subprocess.run raises FileNotFoundError when ffprobe is missing
probe_pts(p) ==
    IF p.launch # "ok" THEN PtsRaise
    ELSE IF p.timed_out THEN PtsReturn([ok |-> FALSE, reason |-> "timeout"])
    ELSE IF p.returncode # 0
    THEN PtsReturn([ok |-> FALSE, reason |-> "ffprobe_error", stderr |-> Strip(p.stderr)])
    ELSE IF p.stdout[1] # "json" THEN PtsReturn([ok |-> FALSE, reason |-> "json_parse_error"])
    ELSE LET pts_list == PtsList(p.stdout[2]) IN
         IF TooFewPts(Len(pts_list))
         THEN PtsReturn([ok |-> FALSE, reason |-> "too_few_pts", pts_count |-> Len(pts_list)])
         ELSE LET backward == Backward(pts_list) IN
              PtsReturn([ok |-> TRUE, pts_count |-> Len(pts_list),
                         pts_span |-> Round3(FracSub(ListMax(pts_list), ListMin(pts_list))),
                         backward_count |-> backward,
                         is_monotonic |-> backward <= PtsTolerance,
                         pts_samples |-> SubSeq(pts_list, 1, Min(10, Len(pts_list)))])

\* timestamps as ffprobe prints them
Pts0 == PyText(<<"0">>)
Pts1 == PyText(<<"1">>)
PtsHalf == PyText(<<"0", ".", "5">>)
Pts2 == PyText(<<"2">>)
Pts3 == PyText(<<"3">>)
Pts4 == PyText(<<"4">>)
PtsSamples == {PyNone, PyText(<<"N", "/", "A">>), Pts0, Pts1}
FrameLists ==
    UNION {[1..n -> PtsSamples] : n \in 0..MaxFrames}
    \cup {<<Pts0, Pts1, Pts2, Pts3, Pts4>>, <<Pts0, Pts1, PtsHalf, Pts2, Pts3>>}
PtsInputs ==
    {PtsProc("ok", FALSE, 0, StdoutJson(fl), <<>>) : fl \in FrameLists}
    \cup {PtsProc("not_found", FALSE, 0, StdoutEmpty, <<>>),
          PtsProc("ok", TRUE, 0, StdoutEmpty, <<>>),
          PtsProc("ok", FALSE, 1, StdoutEmpty, <<" ", "4", "0", "4", " ">>),
          PtsProc("ok", FALSE, 0, StdoutText, <<>>),
          PtsProc("ok", FALSE, 0, StdoutEmpty, <<>>)}

PtsInit ==
    /\ stage = "none"
    /\ input_file = <<>>
    /\ concurrency = 1
    /\ NoRetryArg
    /\ NoCache
    /\ IdleRun
    /\ call_fn = "probe_pts"
    /\ call_arg \in PtsInputs
    /\ call_ret = NotCalled

PtsCall ==
    /\ call_fn = "probe_pts"
    /\ call_ret = NotCalled
    /\ call_ret' = Returned(probe_pts(call_arg))
    /\ UNCHANGED <<cfgVars, mainVars, taskVars, call_fn, call_arg>>

SpecPts == PtsInit /\ [][PtsCall]_vars

\* ------------------------------------------------------- any of the stages
Init == FastInit \/ DeepInit \/ HashInit \/ FinalInit

Next == FastNext \/ DeepNext \/ HashNext \/ FinalNext

Spec == Init /\ [][Next]_vars

\* ====================================================================
\* Properties
\* ====================================================================

\* what the tasks have returned so far, in completion order
AllReturned == results \o done_queue

HasResult(t) == \E i \in DOMAIN AllReturned : AllReturned[i].name = rows[t].name
ResultOf(t) ==
    AllReturned[CHOOSE i \in DOMAIN AllReturned : AllReturned[i].name = rows[t].name]

\* tasks that have taken the semaphore and not given it back
Holders == {t \in Tasks : sem_ops[t][1] > sem_ops[t][2]}

\* C1: in the fast, deep, hash and final scan alike, the tasks that have
\* acquired the stage's semaphore and not yet returned never outnumber the
\* --concurrency setting.
C1_AdmissionBound ==
    /\ stage \in {"fast", "deep", "hash", "final"}
    /\ Cardinality(Holders) <= concurrency
    /\ Holders = {t \in Tasks : Holds(t)}
    /\ semaphore >= 0

\* as many holders as the semaphore admits while another task waits for it
Contended(s) ==
    /\ stage = s
    /\ Cardinality(Holders) = concurrency
    /\ \E t \in Tasks : pc[t] = "start"
C1_Witness == Contended("deep")
C1_WitnessFast == Contended("fast")
C1_WitnessHash == Contended("hash")
C1_WitnessFinal == Contended("final")

IsStatus(o, s) == o.kind = "response" /\ o.status = s
AttemptFailed(o) ==
    \/ o.kind # "response"
    \/ ~(o.status \in {200, 206, 301, 302, 403, 429} \/ o.status \in 500..599)
    \/ (o.avail = 0 /\ o.ending = "hang")

\* C2: a check_source task takes the semaphore exactly once, holds it through
\* every fetch attempt and backoff sleep without taking it again, and gives it
\* back exactly once when it returns.
C2_SemaphoreOnce ==
    /\ \A t \in Tasks :
        /\ pc[t] = "start" => sem_ops[t] = <<0, 0>>
        /\ pc[t] \in {"fetch", "sleep"} => sem_ops[t] = <<1, 0>>
        /\ pc[t] = "done" => sem_ops[t] = <<1, 1>>
    /\ mainPc # "start" =>
        semaphore = concurrency - Cardinality({t \in Tasks : pc[t] \in {"fetch", "sleep"}})

\* a task sleeps before its second attempt while another has returned after two
C2_Witness ==
    \E t, u \in Tasks :
        /\ pc[t] = "sleep" /\ Len(fetched[t]) = 2 /\ sem_ops[t] = <<1, 0>>
        /\ pc[u] = "done" /\ Len(fetched[u]) = 2 /\ sem_ops[u] = <<1, 1>>

OneResultPerRow ==
    /\ Len(results) = Len(rows)
    /\ \A t \in 1..Len(rows) :
         Cardinality({i \in 1..Len(results) :
                        results[i].name = rows[t].name /\ results[i].url = rows[t].url}) = 1

\* C3: with every fetch attempt returning, run_all ends having collected exactly
\* one result per row handed to it, each with that row's URL, whatever the
\* order of completion.
C3_RunAllTerminates == <>(mainPc = "done" /\ OneResultPerRow)

\* the run has ended with the second row's result collected first
C3_Witness ==
    /\ mainPc = "done"
    /\ Len(rows) >= 2
    /\ results[1].name = rows[2].name
    /\ concurrency < Len(rows)

\* C4: fetch_url answers failure without a status when the request raises (no
\* response, or the body read of an accepted status times out); otherwise it
\* answers success exactly for the statuses 200, 206, 301, 302, 403, 429 and
\* 500..599, and failure carrying the status for every other status.
C4_FetchStatus ==
    (call_fn = "fetch_url" /\ call_ret # NotCalled) =>
        LET o == call_arg
            r == call_ret[1]
            allowed == o.status \in {200, 206, 301, 302, 403, 429} \/ o.status \in 500..599
            raised == o.kind # "response" \/ (allowed /\ o.avail = 0 /\ o.ending = "hang")
        IN  IF raised
            THEN r = [ok |-> FALSE, rtt |-> PyNone, status |-> PyNone]
            ELSE /\ r.ok <=> allowed
                 /\ r.status = PyInt(o.status)
                 /\ r.ok => r.rtt[1] = "int"
                 /\ ~r.ok => r.rtt = PyNone

\* fetch_url has accepted a 500
C4_Witness ==
    /\ call_fn = "fetch_url"
    /\ call_ret # NotCalled
    /\ call_arg.kind = "response"
    /\ call_arg.status = 500
    /\ call_ret[1].ok

\* C5: fetch_url answers success only when the body read delivered at least
\* one byte.
C5_SuccessNeedsBytes ==
    (call_fn = "fetch_url" /\ call_ret # NotCalled /\ call_ret[1].ok) =>
        call_arg.avail >= 1

C7_LinearBackoff ==
    \A t \in Tasks :
        /\ \A k \in DOMAIN slept[t] :
              /\ slept[t][k] = 200 * k
              /\ k > 1 => slept[t][k] >= slept[t][k - 1]
        /\ Len(slept[t]) =
              Cardinality({i \in DOMAIN fetched[t] : AttemptFailed(fetched[t][i])})

\* a task has slept after its first and after its second failed attempt
C7_Witness == \E t \in Tasks : slept[t] = <<200, 400>>

\* C8: a task whose attempts all failed returns its row with an empty check
\* time and the status of the last attempt (None when that attempt raised);
\* no task ends any other way than by returning.
C8_FailureIsValue ==
    \A t \in Tasks :
        /\ pc[t] \in {"start", "fetch", "sleep", "done"}
        /\ pc[t] = "done" => HasResult(t)
        /\ (pc[t] = "done" /\ AttemptFailed(fetched[t][Len(fetched[t])])) =>
              LET last == fetched[t][Len(fetched[t])]
                  r == ResultOf(t)
              IN  /\ \A i \in DOMAIN fetched[t] : AttemptFailed(fetched[t][i])
                  /\ r.name = rows[t].name
                  /\ r.url = rows[t].url
                  /\ r.check_time = PyStr("")
                  /\ r.status_code =
                        IF last.kind = "response" /\ ~(last.avail = 0 /\ last.ending = "hang")
                        THEN PyInt(last.status) ELSE PyNone

\* a 404 followed by a refused connection, and the reverse, both returned
C8_Witness ==
    \E t, u \in Tasks :
        /\ pc[t] = "done" /\ pc[u] = "done"
        /\ fetched[t] = <<Response(404, 50, "eof"), ConnectError("refused")>>
        /\ fetched[u] = <<ConnectError("refused"), Response(404, 50, "eof")>>

\* C9: no row whose attempts all failed is in the output for the rows that
\* passed (failed rows go to an invalid output only).
C9_FailedRowsNotInOkOutput ==
    output_file # NotWritten =>
        \A i \in DOMAIN output_file[1] : output_file[1][i].check_time # PyStr("")

\* C10: every data row of the input file has a record in the output.
C10_NoRowDropped ==
    output_file # NotWritten =>
        \A i \in DOMAIN input_file :
            \E j \in DOMAIN output_file[1] :
                /\ output_file[1][j].name = input_file[i].name
                /\ output_file[1][j].url = input_file[i].url

\* C11: whatever ffprobe does for a URL, its probe_one task returns a
\* classified (row, ok) value and does not raise.
C11_ProbeNeverRaises ==
    stage = "deep" => \A t \in Tasks : pc[t] # "raised"

\* the video streams of a probe document, in order
VideoStreams(doc) == SelectSeq(doc.streams, LAMBDA x : x.codec_type = "video")
IsJsonRun(p) == p.launch = "ok" /\ ~p.timed_out /\ p.stdout[1] = "json"
CallEnded(fn) == call_fn = fn /\ call_ret # NotCalled

\* C14: a probe whose output was parsed gives ok = True exactly when the output
\* has a video stream; without one the row comes back invalid with the error
\* no_video_stream, audio or not.
C14_OkIffVideo ==
    (CallEnded("probe_one") /\ ~call_ret[1].end.raised) =>
        LET p == call_arg
            result == call_ret[1].end.value[1]
            ok == call_ret[1].end.value[2]
            has_video == IsJsonRun(p) /\ VideoStreams(p.stdout[2]) # <<>>
        IN  /\ ok <=> has_video
            /\ (IsJsonRun(p) /\ ~has_video) =>
                  /\ result.error = <<"no_video_stream">>
                  /\ result.has_video = FALSE
                  /\ result.has_audio =
                        (\E i \in DOMAIN p.stdout[2].streams :
                            p.stdout[2].streams[i].codec_type = "audio")

\* an audio stream alone was probed and the row came back invalid
C14_Witness ==
    /\ CallEnded("probe_one")
    /\ IsJsonRun(call_arg)
    /\ call_arg.stdout[2].streams = <<AudioStream>>
    /\ ~call_ret[1].end.raised
    /\ call_ret[1].end.value[2] = FALSE
    /\ call_ret[1].end.value[1].error = <<"no_video_stream">>

\* C15: with several video streams the codec, width, height and frame rate
\* reported are those of the first video stream.
C15_FirstVideoStream ==
    (CallEnded("probe_one") /\ ~call_ret[1].end.raised /\ IsJsonRun(call_arg)
        /\ Len(VideoStreams(call_arg.stdout[2])) >= 2) =>
        LET first == VideoStreams(call_arg.stdout[2])[1]
            result == call_ret[1].end.value[1]
        IN  /\ result.video_codec = first.codec_name
            /\ result.width = first.width
            /\ result.height = first.height
            /\ result.frame_rate = OrEmpty(FrameRate(first).value)

\* the last subprocess task t ran went over its timeout
TimedOut(t) == last_proc[t] # NoProc /\ last_proc[t].timed_out
EndOf(t) == task_end[t][1]

\* C12 as stated: a task whose subprocess call went over its timeout has killed
\* the subprocess and returns a failure value classified as timeout.
C12_TimeoutResultIsTimeout ==
    \A t \in Tasks : (TimedOut(t) /\ pc[t] = "done") =>
        /\ last_proc[t].killed
        /\ ~EndOf(t).raised
        /\ CASE stage = "deep" ->
                  /\ EndOf(t).value[2] = FALSE
                  /\ EndOf(t).value[1].error = <<"timeout">>
             [] stage = "hash" ->
                  /\ EndOf(t).value[2].final_error # PyNone
                  /\ classify_error(EndOf(t).value[2].final_error[2]) = "timeout"
             [] stage = "final" ->
                  /\ EndOf(t).value.status = "error"
                  /\ StrContains(EndOf(t).value.errors, "timeout")

\* C12, amended: a subprocess call that goes over its timeout kills the
\* subprocess and ends as a timeout failure of that call, without an exception:
\* the deep scan returns the row invalid with error timeout; the hash scan counts
\* the attempt as a timeout and, when it was the last attempt, returns null hash
\* lists with the timeout as final error; the final scan's capture yields no
\* frame and the task's result names no timeout (status error with
\* all_grab_failed, or ok when another capture gave a frame).
C12_TimeoutKilledAndCaptured ==
    \A t \in Tasks : TimedOut(t) =>
        /\ last_proc[t].killed
        /\ stage = "deep" =>
              /\ pc[t] = "done"
              /\ EndOf(t) = TaskReturn(<<FailedProbe(rows[t], FALSE, <<"timeout">>), FALSE>>)
        /\ stage = "hash" =>
              /\ pc[t] \in {"retry_sleep", "grab", "done"}
              /\ pc[t] # "done" => local[t].timeout_count >= 1
              /\ pc[t] = "done" =>
                    LET data == EndOf(t).value[2] IN
                    /\ ~EndOf(t).raised
                    /\ data.timeout_count >= 1
                    /\ data.fail_count = retries + 1
                    /\ StrContains(data.final_error[2], "Timeout")
                    /\ data.phash = NoneList /\ data.ahash = NoneList
                    /\ data.dhash = NoneList /\ data.whash = NoneList
        /\ stage = "final" =>
              /\ pc[t] \in {"frames", "done"}
              /\ pc[t] = "frames" =>
                    \A i \in DOMAIN local[t].frames :
                        local[t].frames[i][1] # GRAB_TIMEPOINTS[local[t].tp]
                        \/ local[t].try = 0
              /\ pc[t] = "done" =>
                    /\ ~EndOf(t).raised
                    /\ EndOf(t).value.errors \in {<<>>, <<"all_grab_failed">>}
                    /\ EndOf(t).value.status = "error" <=>
                          EndOf(t).value.errors = <<"all_grab_failed">>

\* a hash scan task gave up after a timeout in each of its attempts while the
\* other task of the run returned its hashes
C12_Witness ==
    /\ stage = "hash"
    /\ retries = 1
    /\ \E t, u \in Tasks :
          /\ TimedOut(t) /\ pc[t] = "done"
          /\ EndOf(t).value[2].timeout_count = 2
          /\ pc[u] = "done" /\ ~TimedOut(u)
          /\ EndOf(u).value[2].final_error = PyNone

\* C13: a missing tool, a non-zero exit and output that cannot be parsed each
\* give a classified failure result for the URL, never an exception.
C13_ToolFailuresClassified ==
    (CallEnded("probe_pts")
        /\ (call_arg.launch = "not_found" \/ call_arg.returncode # 0
                \/ call_arg.stdout[1] # "json")) =>
        /\ ~call_ret[1].raised
        /\ call_ret[1].value.ok = FALSE
        /\ call_ret[1].value.reason \in {"timeout", "ffprobe_error", "json_parse_error"}

\* the timestamps probe_pts can parse, in frame order
Parseable(frames) ==
    SelectSeq(frames, LAMBDA x : x # PyNone /\ ParseFloat(x[2]) # <<>>)
PtsValue(x) == ParseFloat(x[2])[1]
IsPtsRun(p) == p.launch = "ok" /\ ~p.timed_out /\ p.returncode = 0 /\ p.stdout[1] = "json"

\* C18: with at least 5 timestamps, backward_count is the number of positions
\* whose timestamp is not above its predecessor and is_monotonic says whether
\* that number is within the tolerance of 1; [0,1,2,3,4] has 0 such positions
\* and is monotonic, [0,1,0.5,2,3] has 1, which a tolerance of 1 admits and a
\* tolerance of 0 would not.
C18_BackwardCount ==
    (CallEnded("probe_pts") /\ IsPtsRun(call_arg)
        /\ Len(Parseable(call_arg.stdout[2])) >= 5) =>
        LET pts == Parseable(call_arg.stdout[2])
            n == Cardinality({i \in 2..Len(pts) :
                                 LET a == PtsValue(pts[i - 1])
                                     b == PtsValue(pts[i])
                                 IN  b[1] * a[2] <= a[1] * b[2]})
            r == call_ret[1].value
        IN  /\ ~call_ret[1].raised
            /\ r.backward_count = n
            /\ r.is_monotonic <=> n <= 1
            /\ pts = <<Pts0, Pts1, Pts2, Pts3, Pts4>> =>
                  r.backward_count = 0 /\ r.is_monotonic
            /\ pts = <<Pts0, Pts1, PtsHalf, Pts2, Pts3>> =>
                  r.backward_count = 1 /\ r.is_monotonic /\ ~(r.backward_count <= 0)

\* [0,1,0.5,2,3] has been classified
C18_Witness ==
    /\ CallEnded("probe_pts")
    /\ IsPtsRun(call_arg)
    /\ call_arg.stdout[2] = <<Pts0, Pts1, PtsHalf, Pts2, Pts3>>
    /\ call_ret[1].value.ok
    /\ call_ret[1].value.backward_count = 1

\* C19: frames without a timestamp or with one that float() rejects are not
\* counted; with fewer than 5 counted timestamps the result is ok = False,
\* too_few_pts and the count, without classification; with 5 or more the result
\* is a classification.
C19_TooFewPts ==
    (CallEnded("probe_pts") /\ IsPtsRun(call_arg)) =>
        LET n == Len(Parseable(call_arg.stdout[2]))
            r == call_ret[1].value
        IN  /\ ~call_ret[1].raised
            /\ n < 5 => r = [ok |-> FALSE, reason |-> "too_few_pts", pts_count |-> n]
            /\ n >= 5 =>
                  /\ r.ok
                  /\ r.pts_count = n
                  /\ r.is_monotonic \in BOOLEAN
                  /\ "reason" \notin DOMAIN r

\* six frames, one of them without a usable timestamp, were classified
C19_Witness ==
    /\ CallEnded("probe_pts")
    /\ IsPtsRun(call_arg)
    /\ Len(call_arg.stdout[2]) = 6
    /\ Len(Parseable(call_arg.stdout[2])) = 5
    /\ call_ret[1].value.ok

\* the complement of a hash over its 64 bits
Complement(h) == Bits((0..63) \ h[2])

\* C20: for 64-bit hashes similarity_hash(h, h) is 1.0, similarity_hash(h,
\* complement of h) is 0.0, and similarity_hash(a, b) is 1 - (number of bit
\* positions in which a and b differ) / 64, a value from 0 to 1.
C20_HammingSimilarity ==
    CallEnded("similarity_hash") =>
        LET a == call_arg[1]
            b == call_arg[2]
            r == call_ret[1]
            differ == Cardinality({i \in 0..63 : (i \in a[2]) # (i \in b[2])})
        IN  /\ r[2] > 0
            /\ r[1] * 64 = (64 - differ) * r[2]
            /\ 0 <= r[1] /\ r[1] <= r[2]
            /\ a = b => r[1] = r[2]
            /\ b = Complement(a) => r[1] = 0

\* a hash with its top bit set was compared with its complement
C20_Witness ==
    /\ CallEnded("similarity_hash")
    /\ 63 \in call_arg[1][2]
    /\ Cardinality(call_arg[1][2]) = 2
    /\ call_arg[2] = Complement(call_arg[1])
    /\ call_ret[1][1] = 0

\* the rows deep_scan has sorted so far
Sorted == results_ok \o results_fail

\* C16: when deep_scan is over, every input row is in exactly one of results_ok
\* and results_fail, the two together have as many rows as the input, and a row
\* is in results_ok exactly when its own probe_one returned ok = True.
C16_RowsPartitioned ==
    (stage = "deep" /\ mainPc \in {"done", "crashed"}) =>
        /\ Len(results_ok) + Len(results_fail) = Len(input_file)
        /\ \A t \in DOMAIN input_file :
              /\ Cardinality({i \in DOMAIN Sorted : Sorted[i].name = input_file[t].name}) = 1
              /\ task_end[t] # NotCalled
              /\ ~EndOf(t).raised
              /\ (\E i \in DOMAIN results_ok : results_ok[i].name = input_file[t].name)
                    <=> EndOf(t).value[2]

\* the input row a result row or output row belongs to
InputRowOf(r) == input_file[CHOOSE i \in DOMAIN input_file : input_file[i].name = r.name]
KeepsInputColumns(r) ==
    \A k \in DOMAIN InputRowOf(r) : k \in DOMAIN r /\ r[k] = InputRowOf(r)[k]

\* C17: every row the fast scan writes, and every row the deep scan prepares
\* for its writers, has each column of its input row (the resolution hint
\* among them) with the input's value.
C17_PassthroughUnchanged ==
    /\ (stage = "fast" /\ output_file # NotWritten) =>
          \A i \in DOMAIN output_file[1] : KeepsInputColumns(output_file[1][i])
    /\ stage = "deep" =>
          \A i \in DOMAIN Sorted : KeepsInputColumns(OutRow(Sorted[i]))

\* the hash kinds both fingerprint sets have
Shared(h1, h2) == {k \in HashKinds : h1[k] # PyNone /\ h2[k] # PyNone}
\* the bit positions in which two hashes differ
Differ(a, b) == {i \in 0..(HASH_BITS - 1) : (i \in a[2]) # (i \in b[2])}

\* C21: average_similarity(A, B) = average_similarity(B, A) for all
\* fingerprint sets A and B, each hash kind present or absent: the value
\* returned for (A, B) is the value of the call with the arguments swapped.
C21_SimilaritySymmetric ==
    CallEnded("average_similarity") =>
        FracEq(call_ret[1], average_similarity(call_arg[2], call_arg[1]))

\* the sets share one hash kind only and each has a kind the other lacks
C21_Witness ==
    /\ CallEnded("average_similarity")
    /\ Cardinality(Shared(call_arg[1], call_arg[2])) = 1
    /\ \E k \in HashKinds : call_arg[1][k] # PyNone /\ call_arg[2][k] = PyNone
    /\ \E k \in HashKinds : call_arg[1][k] = PyNone /\ call_arg[2][k] # PyNone
    /\ call_ret[1][1] > 0

\* C22: average_similarity is the arithmetic mean of the similarities
\* 1 - differing bits / 64 of exactly the hash kinds present in both sets,
\* and 0 when no kind is present in both.
C22_MeanOverShared ==
    CallEnded("average_similarity") =>
        LET h1 == call_arg[1]
            h2 == call_arg[2]
            r == call_ret[1]
            n == Cardinality(Shared(h1, h2))
            differ(k) == Cardinality(Differ(h1[k], h2[k]))
            total == IF "phash" \in Shared(h1, h2) THEN HASH_BITS - differ("phash") ELSE 0
            total2 == IF "ahash" \in Shared(h1, h2) THEN HASH_BITS - differ("ahash") ELSE 0
            total3 == IF "dhash" \in Shared(h1, h2) THEN HASH_BITS - differ("dhash") ELSE 0
        IN  /\ r[2] > 0
            /\ n = 0 => r[1] = 0
            /\ n > 0 => r[1] * HASH_BITS * n = (total + total2 + total3) * r[2]

\* two kinds are shared, one equal and one opposite: the mean is 1/2
C22_Witness ==
    /\ CallEnded("average_similarity")
    /\ Shared(call_arg[1], call_arg[2]) = {"phash", "dhash"}
    /\ call_arg[1].phash = call_arg[2].phash
    /\ Cardinality(Differ(call_arg[1].dhash, call_arg[2].dhash)) = HASH_BITS
    /\ call_arg[1].ahash # PyNone
    /\ call_ret[1][1] * 2 = call_ret[1][2]

\* the freshly captured fingerprints of a call of process_one
FreshHashes(frames) == {ImageHashes(frames[i][2][2]) : i \in DOMAIN frames}
\* the frames are images, so that their hashes exist
AllImages(frames) == \A i \in DOMAIN frames : frames[i][2][1] = "image"
\* the most recent bucket of a URL's cached history
MostRecent(c) ==
    c[BucketKeys[CHOOSE i \in DOMAIN BucketKeys :
                    /\ BucketKeys[i] \in DOMAIN c
                    /\ \A j \in DOMAIN BucketKeys : BucketKeys[j] \in DOMAIN c => j <= i]]
MeetsThreshold(x) == x[1] * 100 >= ThresholdPercent * x[2]

\* C23: for a URL with cached history process_one reports is_fake exactly
\* when some freshly captured fingerprint and some fingerprint of the URL's
\* most recent cache bucket have a set similarity of at least 0.95; the older
\* buckets do not count.
C23_FakeByMostRecentBucket ==
    (/\ CallEnded("process_one")
     /\ DOMAIN call_arg.cache_for_url # {}
     /\ call_arg.frames # <<>>
     /\ AllImages(call_arg.frames)) =>
        LET recent == MostRecent(call_arg.cache_for_url)
            r == call_ret[1]
        IN  /\ ~r.raised
            /\ r.value.status = "ok"
            /\ r.value.is_fake <=>
                  \E rh \in FreshHashes(call_arg.frames), tp \in DOMAIN recent :
                      MeetsThreshold(average_similarity(rh, recent[tp]))

\* C24: for a URL without a cache entry process_one returns status ok with
\* is_fake = False whenever at least one frame was captured, whatever the
\* hashes of the frames are.
C24_FirstObservationOk ==
    (/\ CallEnded("process_one")
     /\ DOMAIN call_arg.cache_for_url = {}
     /\ call_arg.frames # <<>>
     /\ AllImages(call_arg.frames)) =>
        /\ ~call_ret[1].raised
        /\ call_ret[1].value.status = "ok"
        /\ call_ret[1].value.is_fake = FALSE

\* one frame only was captured, at the last timepoint, for a URL never seen
C24_Witness ==
    /\ CallEnded("process_one")
    /\ DOMAIN call_arg.cache_for_url = {}
    /\ Len(call_arg.frames) = 1
    /\ call_arg.frames[1] = <<10, <<"image", "imgC">>>>
    /\ call_ret[1].value.status = "ok"

\* C25: when the capture at one timepoint fails in the last attempt of
\* process_url, only that timepoint gets a null hash: the hashes captured at
\* the other timepoints in that attempt are in the returned data, which has
\* one entry per timepoint.
C25_CapturedHashesKept ==
    [][\A t \in Tasks :
         (stage = "hash" /\ pc[t] = "grab" /\ pc'[t] = "done") =>
            LET data == EndOf(t)'.value[2]
                captured == local[t].phashes
            IN  /\ Len(data.phash) = Len(GRAB_TIMES)
                /\ \A i \in DOMAIN captured : data.phash[i] = captured[i]]_vars

\* the document of the total file, {} while there is none
StoreDoc == IF cache[1] = "json" THEN cache[2] ELSE <<>>
\* the time tags merged so far for a URL, and the URLs merged so far
MergedTags(url) == {p[2] : p \in {q \in call_arg : q[1] = url}}
MergedUrls == {p[1] : p \in call_arg}

\* C26: after merging k distinct time buckets for a URL into an empty store,
\* in whatever order and however often, the URL holds min(k, MAX_HISTORY)
\* buckets, each key once, and they are the buckets with the largest keys
\* among those merged.
C26_MostRecentBucketsKept ==
    call_fn = "merge_hash" =>
        /\ KeySet(StoreDoc) = MergedUrls
        /\ \A url \in MergedUrls :
              LET buckets == Get(StoreDoc, url)
                  held == KeySet(buckets)
              IN  /\ Len(buckets) = Min(Cardinality(MergedTags(url)), MAX_HISTORY)
                  /\ Cardinality(held) = Len(buckets)
                  /\ held \subseteq MergedTags(url)
                  /\ \A a \in held, b \in MergedTags(url) \ held : b < a

\* MAX_HISTORY + 1 buckets were merged for a URL, the oldest of them not first
C26_Witness ==
    /\ call_fn = "merge_hash"
    /\ Cardinality(MergedTags(1)) = MAX_HISTORY + 1
    /\ Len(Get(StoreDoc, 1)) = MAX_HISTORY
    /\ Keys(Get(StoreDoc, 1))[1] = MAX_HISTORY + 1
    /\ 1 \notin KeySet(Get(StoreDoc, 1))

\* C27: a merge run a second time with the same chunk entries under the same
\* time bucket (the same day and the same chunk cache files for the total
\* cache) leaves the store as the first run wrote it: the bucket is
\* overwritten, none is added.
C27_MergeIdempotent ==
    /\ call_fn = "merge_hash" =>
          \A time_tag \in TimeTags, files \in Listings :
              LET once == merge_hash(cache, files, time_tag) IN
              once.how = "written" =>
                  merge_hash(once.file, files, time_tag) = once
    /\ call_fn = "merge_caches" =>
          \A today \in Todays, cache_dir \in CacheDirSamples :
              LET once == merge_caches(cache, cache_dir, today) IN
              once.how = "written" =>
                  merge_caches(once.file, cache_dir, today) = once

\* a store that is full and holds bucket 3, which a merge under tag 3 would
\* overwrite; or a total cache with both URLs
C27_Witness ==
    /\ call_ret = Returned("written")
    /\ \/ /\ call_fn = "merge_hash"
          /\ Len(Get(StoreDoc, 1)) = MAX_HISTORY
          /\ 3 \in KeySet(Get(StoreDoc, 1))
       \/ /\ call_fn = "merge_caches"
          /\ KeySet(StoreDoc) = {1, 2}
          /\ Len(Get(StoreDoc, 1)) = 2

\* a dict written in ascending order of its keys
KeysAscending(d) == \A i, j \in DOMAIN d : i < j => d[i][1] < d[j][1]
\* the timepoints of a bucket are in the order of TIME_KEYS
InTimeKeyOrder(bucket) ==
    \E f \in [DOMAIN bucket -> DOMAIN TIME_KEYS] :
        /\ \A i \in DOMAIN bucket : TIME_KEYS[f[i]] = bucket[i][1]
        /\ \A i, j \in DOMAIN bucket : i < j => f[i] < f[j]
Reverse(q) == [i \in DOMAIN q |-> q[Len(q) + 1 - i]]

\* C28: both merge steps write the URLs in ascending order and the buckets of
\* each URL in ascending order of their keys (the total cache also the
\* timepoints of a bucket in the order of TIME_KEYS), and a merge of the same
\* backing file, chunk files and time bucket writes the same document when
\* the chunk files are listed in the opposite order.
C28_SortedDeterministicOutput ==
    /\ call_ret = Returned("written") =>
          /\ KeysAscending(StoreDoc)
          /\ \A i \in DOMAIN StoreDoc : KeysAscending(StoreDoc[i][2])
          /\ call_fn = "merge_caches" =>
                \A i \in DOMAIN StoreDoc : \A j \in DOMAIN StoreDoc[i][2] :
                    InTimeKeyOrder(StoreDoc[i][2][j][2])
    /\ call_fn = "merge_hash" =>
          \A time_tag \in TimeTags :
              merge_hash(cache, <<ChunkU1, ChunkU2>>, time_tag)
                  = merge_hash(cache, <<ChunkU2, ChunkU1>>, time_tag)
    /\ call_fn = "merge_caches" =>
          \A today \in Todays, d \in Dates, l \in DirListings :
              merge_caches(cache, CacheDir(<<<<d, l>>>>), today)
                  = merge_caches(cache, CacheDir(<<<<d, Reverse(l)>>>>), today)

\* C29: each loader of a cache backing file (load_json_safe, the head of
\* merge_caches, load_cache_advanced) returns the empty store, and raises
\* nothing, for a file that is missing and for a file that is not valid JSON.
C29_MissingOrCorruptIsEmpty ==
    (call_fn \in Loaders /\ call_ret # NotCalled /\ call_arg \in {FileMissing, FileCorrupt})
        => call_ret = Returned([raised |-> FALSE, value |-> <<>>])

\* the row of task t met a refused connection at every attempt
Unreachable(t) ==
    /\ fetched[t] # <<>>
    /\ \A i \in DOMAIN fetched[t] : fetched[t][i] = ConnectError("refused")
InInvalidFile(name) ==
    /\ invalid_file # NotWritten
    /\ \E j \in DOMAIN invalid_file[1] : invalid_file[1][j].name = name

\* C30: at the end of the stages the unreachable row (fast scan), the row
\* without a video stream (deep scan) and the row found fake (final scan) are
\* each in the invalid output of their stage and in no ok output.
C30_ScenarioRowsEndInvalid ==
    /\ (stage = "fast" /\ mainPc = "done") =>
          \A t \in Tasks : (pc[t] = "done" /\ Unreachable(t)) =>
              /\ \A i \in DOMAIN output_file[1] : output_file[1][i].name # rows[t].name
              /\ InInvalidFile(rows[t].name)
    /\ (stage = "deep" /\ mainPc \in {"done", "crashed"}) =>
          \A i \in DOMAIN results_fail :
              results_fail[i].error = <<"no_video_stream">> =>
                  InInvalidFile(results_fail[i].name)
    /\ (stage = "final" /\ mainPc = "done") =>
          \A i \in DOMAIN results : results[i].is_fake =>
              /\ invalid_file # NotWritten
              /\ \E j \in DOMAIN invalid_file[1] : invalid_file[1][j].url = results[i].url

\* the new entry of a URL: the one of the last chunk file that has the URL
NewEntry(files, url) ==
    LET with_url == SelectSeq(files, LAMBDA f : f[1] = "json" /\ Has(f[2], url)) IN
    Get(with_url[Len(with_url)][2], url)
BucketsOf(doc, url) == IF Has(doc, url) THEN Get(doc, url) ELSE <<>>
NewListings == {<<ChunkU1>>, <<ChunkU1b>>, <<ChunkU2>>, <<ChunkU1, ChunkBoth>>}

\* C32 as stated: after a merge under time tag t every URL of the chunk files
\* holds bucket t with its new entry, whatever buckets it held before.
C32_NewBucketHeld ==
    call_fn = "merge_hash" =>
        \A time_tag \in TimeTags, files \in NewListings :
            LET end == merge_hash(cache, files, time_tag) IN
            end.how = "written" =>
                \A url \in ListedUrls(files) :
                    /\ Has(BucketsOf(end.file[2], url), time_tag)
                    /\ Get(Get(end.file[2], url), time_tag) = NewEntry(files, url)

\* C32, amended: after a merge under time tag t every URL of the chunk files
\* holds bucket t with its new entry, unless the URL held MAX_HISTORY or more
\* buckets more recent than t: then bucket t is not retained.
C32_NewBucketHeldUnlessOldest ==
    call_fn = "merge_hash" =>
        \A time_tag \in TimeTags, files \in NewListings :
            LET end == merge_hash(cache, files, time_tag) IN
            end.how = "written" =>
                \A url \in ListedUrls(files) :
                    LET after == BucketsOf(end.file[2], url)
                        newer == {k \in KeySet(BucketsOf(StoreDoc, url)) : k > time_tag}
                    IN  IF Cardinality(newer) >= MAX_HISTORY
                        THEN ~Has(after, time_tag)
                        ELSE /\ Has(after, time_tag)
                             /\ Get(after, time_tag) = NewEntry(files, url)

\* the store was written with MAX_HISTORY buckets, a merge under the older tag
\* 1 leaves it as it is and a merge of other data under a held tag changes it
C32_Witness ==
    /\ call_fn = "merge_hash"
    /\ call_ret = Returned("written")
    /\ KeySet(BucketsOf(StoreDoc, 1)) = 2..(MAX_HISTORY + 1)
    /\ merge_hash(cache, <<ChunkU1b>>, 1).file = cache
    /\ Get(Get(merge_hash(cache, <<ChunkU1b>>, 2).file[2], 1), 2) = "data1b"

\* C33: a hash-history merge leaves the buckets of every URL that is in none
\* of the chunk files as they were, and with no chunk file it leaves the
\* backing file as it was.
C33_OtherUrlsUntouched ==
    call_fn = "merge_hash" =>
        \A time_tag \in TimeTags :
            /\ merge_hash(cache, <<>>, time_tag).file = cache
            /\ \A files \in NewListings :
                  LET end == merge_hash(cache, files, time_tag) IN
                  end.how = "written" =>
                      \A url \in KeySet(StoreDoc) \ ListedUrls(files) :
                          /\ Has(end.file[2], url)
                          /\ Get(end.file[2], url) = Get(StoreDoc, url)

\* URL 1 holds MAX_HISTORY buckets and a merge of the chunk of URL 2 adds URL 2
C33_Witness ==
    /\ call_fn = "merge_hash"
    /\ call_ret = Returned("written")
    /\ Len(BucketsOf(StoreDoc, 1)) = MAX_HISTORY
    /\ KeySet(merge_hash(cache, <<ChunkU2>>, 1).file[2]) = {1, 2}

\* a run of merge_caches has returned
Merged(how) == call_fn = "merge_caches" /\ call_ret \in {Returned(h) : h \in how}
RecentSet(today) == {RecentDays(today)[i] : i \in 1..3}

\* C34: when merge_caches has returned, every date bucket of the total cache
\* is one of the three days up to the day of the run, and no URL holds more
\* than 3 of them.
C34_OnlyRecentDates ==
    Merged({"written", "nothing_recent", "no_cache_dir"}) =>
        \A i \in DOMAIN StoreDoc :
            /\ KeySet(StoreDoc[i][2]) \subseteq RecentSet(call_arg.today)
            /\ Len(StoreDoc[i][2]) <= 3

\* the date directories merge_caches has merged in its last run
MergedDates == RecentExist(RecentDays(call_arg.today), call_arg.cache_dir.dirs)
\* the chunk cache files it has read in the directory of date d
ReadFiles(d) ==
    SelectSeq(Get(call_arg.cache_dir.dirs, d), LAMBDA f : f.named /\ f.file[1] = "json")

\* C35: every (url, date, timepoint) of a chunk cache file merge_caches has
\* read is in the total cache it has written.
C35_NoTimepointLost ==
    Merged({"written"}) =>
        \A n \in DOMAIN MergedDates :
            LET d == MergedDates[n] IN
            \A f \in DOMAIN ReadFiles(d) :
                LET data == ReadFiles(d)[f].file[2] IN
                \A u \in DOMAIN data : \A t \in DOMAIN data[u][2] :
                    /\ Has(StoreDoc, data[u][1])
                    /\ Has(Get(StoreDoc, data[u][1]), d)
                    /\ Has(Get(Get(StoreDoc, data[u][1]), d), data[u][2][t][1])

\* C40: after merge_caches has written the total cache, last_merged_date of
\* the merge record is the latest of the dates merged.
C40_LastMergedIsLatest ==
    Merged({"written"}) =>
        /\ output_file # NotWritten
        /\ Has(output_file[1], "last_merged_date")
        /\ \A n \in DOMAIN MergedDates :
              MergedDates[n] <= Get(output_file[1], "last_merged_date")

IsNull(x) == x = PyNone
HashLists(data) == {data.phash, data.ahash, data.dhash, data.whash}

\* C36: the data process_url returns has one entry per timepoint in each of
\* its four hash lists; either no entry is null and final_error is None, or
\* every entry is null, final_error is set and fail_count = retries + 1;
\* fail_count is the sum of the three error counts; no more than retries + 1
\* capture cycles are run.
C36_ProcessUrlResultShape ==
    stage = "hash" =>
        \A t \in Tasks :
            /\ pc[t] \in {"grab", "retry_sleep"} =>
                  /\ local[t].attempt <= retries
                  /\ local[t].fail_count <= local[t].attempt + 1
            /\ pc[t] = "done" =>
                  LET data == EndOf(t).value[2] IN
                  /\ ~EndOf(t).raised
                  /\ \A l \in HashLists(data) : Len(l) = Len(GRAB_TIMES)
                  /\ \/ /\ \A l \in HashLists(data) : \A i \in DOMAIN l : ~IsNull(l[i])
                        /\ data.final_error = PyNone
                        /\ data.fail_count <= retries
                     \/ /\ \A l \in HashLists(data) : \A i \in DOMAIN l : IsNull(l[i])
                        /\ data.final_error # PyNone
                        /\ data.fail_count = retries + 1
                  /\ data.fail_count = data.timeout_count + data.network_error_count
                                           + data.other_error_count

\* process_url gave up after a timeout, a network error and another error,
\* one in each of its three attempts
C36_Witness ==
    /\ stage = "hash"
    /\ retries = 2
    /\ \E t \in Tasks :
          /\ pc[t] = "done"
          /\ EndOf(t).value[2].timeout_count = 1
          /\ EndOf(t).value[2].network_error_count = 1
          /\ EndOf(t).value[2].other_error_count = 1
          /\ EndOf(t).value[2].phash = NoneList
          /\ EndOf(t).value[2].success_count = 3

\* the frames of grab_frame_multi so far: at most one per timepoint, in the
\* order of the timepoints, none for the timepoint being captured
OnePerTimepoint(l) ==
    /\ \A i, j \in DOMAIN l.frames : i < j => l.frames[i][1] < l.frames[j][1]
    /\ \A i \in DOMAIN l.frames :
          \E k \in 1..(l.tp - 1) : GRAB_TIMEPOINTS[k] = l.frames[i][1]

\* C37: grab_frame_multi makes no more than GRAB_RETRY attempts for a
\* timepoint, goes to the next timepoint at the first frame, goes to the next
\* timepoint as well when the last attempt returned no frame, and ends after
\* the last timepoint; process_one then reports status error with
\* all_grab_failed and is_fake False only when no timepoint gave a frame.
C37_CaptureRetries ==
    [][\A t \in Tasks : (stage = "final" /\ pc[t] = "frames") =>
         LET l == local[t] IN
         /\ l.try < GRAB_RETRY
         /\ l.tp \in DOMAIN GRAB_TIMEPOINTS
         /\ OnePerTimepoint(l)
         /\ pc'[t] = "frames" =>
               LET n == local'[t] IN
               IF Len(n.frames) > Len(l.frames)
               THEN /\ n.frames = Append(l.frames, n.frames[Len(n.frames)])
                    /\ n.frames[Len(n.frames)][1] = GRAB_TIMEPOINTS[l.tp]
                    /\ n.tp = l.tp + 1 /\ n.try = 0
               ELSE /\ n.frames = l.frames
                    /\ IF l.try + 1 < GRAB_RETRY
                       THEN n.tp = l.tp /\ n.try = l.try + 1
                       ELSE n.tp = l.tp + 1 /\ n.try = 0
         /\ pc'[t] = "done" =>
               LET r == EndOf(t)'.value IN
               /\ l.tp = Len(GRAB_TIMEPOINTS)
               /\ l.frames # <<>> => r.status = "ok"
               /\ r.status = "error" =>
                     /\ l.frames = <<>>
                     /\ l.try = GRAB_RETRY - 1
                     /\ r.errors = <<"all_grab_failed">>
                     /\ ~r.is_fake]_vars

\* the first two timepoints gave no frame in two attempts each and the third
\* is at its second attempt
C37_Witness ==
    /\ stage = "final"
    /\ \E t \in Tasks :
          /\ pc[t] = "frames"
          /\ local[t].tp = Len(GRAB_TIMEPOINTS)
          /\ local[t].try = GRAB_RETRY - 1
          /\ local[t].frames = <<>>

\* C38: a result of process_one has is_fake = True exactly when its status is
\* ok and its similarity is at or above the threshold.
C38_FakeIffSimilar ==
    (CallEnded("process_one") /\ ~call_ret[1].raised) =>
        (call_ret[1].value.is_fake <=>
            (call_ret[1].value.status = "ok" /\ MeetsThreshold(call_ret[1].value.similarity)))

\* C39: when download_list is done, each of the names 1sddxzb.m3u,
\* 2sddxdb.m3u, 3jnltzb.m3u that is in the directory holds what was
\* downloaded from the first, second, third URL of the list, and it is there
\* when that download succeeded.
C39_RenamedByListPosition ==
    (stage = "download" /\ mainPc = "done") =>
        \A k \in DOMAIN RenameMap \cap DOMAIN rows :
            /\ Has(output_file, RenameMap[k]) =>
                  Get(output_file, RenameMap[k]) = rows[k].url
            /\ EndOf(k).value # PyNone => Has(output_file, RenameMap[k])

\* the fingerprints stored in total_cache.json
StoredFingerprints(c) ==
    UNION {UNION {{c[u][d][tp] : tp \in DOMAIN c[u][d]} : d \in DOMAIN c[u]} : u \in DOMAIN c}
\* the runs that captured img and found it at or above the threshold against
\* a stored fingerprint
MatchingRuns(img) ==
    {n \in DOMAIN results :
        /\ results[n].frames # <<>>
        /\ results[n].frames[1][2] = <<"image", img>>
        /\ ~results[n].ret.raised
        /\ results[n].ret.value.is_fake}

\* C31: a fresh fingerprint that matched a stored fake fingerprint above the
\* threshold in two separate runs is among the stored fingerprints (added
\* once), and no run removes a stored fingerprint.
C31_LearnedOnce ==
    [][/\ \A img \in OneImages :
            Cardinality(MatchingRuns(img)') >= 2 =>
                ImageHashes(img) \in StoredFingerprints(cache')
       /\ StoredFingerprints(cache) \subseteq StoredFingerprints(cache')]_vars

====
